---- MODULE Spec2Model ----
(***************************************************************************)
(* Model of the code-context indexing pipeline: ingestBranch, processFiles *)
(* (the synchronizer sweep and processFileContents), embedFiles and        *)
(* queryRepo, over the SQLite store of db.ts and a shared git working copy.*)
(***************************************************************************)
EXTENDS Integers, Sequences, FiniteSets, TLC

----------------------------------------------------------------------------
(* Bounds of the model *)

MaxCommits == 1
BATCH_SIZE == 2

MaxBeats == 2

MaxPieces == 4

MaxTuples == 3

MaxPatternLen == 3
MaxPathLen == 3

Inv == {1, 2}
Branches == {"A", "B"}
DefaultBranch == "A"
Paths == {"a.zip", "x.ts"}
PathOrder == <<"a.zip", "x.ts">>
Shas == {1, 2}
Filters == {Paths, {"a.zip"}}
Strings(chars, n) == UNION {[1..k -> chars] : k \in 1..n}
Patterns == Strings({"a", "/", "*"}, MaxPatternLen)
PathStrings == {s \in Strings({"a", "/"}, MaxPathLen) : s[1] # "/" /\ s[Len(s)] # "/" /\ \A k \in 1..(Len(s) - 1) : s[k] # "/" \/ s[k + 1] # "/"}
IncludeLists == {<<>>} \cup {<<p>> : p \in Patterns} \cup {<<p, <<"a">> >> : p \in Patterns}
ExcludeLists == {<<>>} \cup {<<p>> : p \in Strings({"a", "/", "*"}, 2)}
Modes == {"production", "test"}
Endpoints == {"embed", "embeddings"}
QueryVectors == {<<1, 1>>, <<1, 0>>, <<0, 0>>}
Limits == {0, 1}
KeywordLists == {<< <<"F">> >>, << <<" ", "o">> >>, << <<"x", "o">>, <<"O", "x">> >>}
Trees == {t \in [Paths -> {0} \cup Shas] : t["a.zip"] <= 1}
OnlyX(s) == [p \in Paths |-> IF p = "x.ts" THEN s ELSE 0]
InitTrees == {[b \in Branches |-> IF b = "A" THEN OnlyX(1) ELSE OnlyX(2)], [b \in Branches |-> OnlyX(1)]}

----------------------------------------------------------------------------
(* Values *)

NoFile == [id |-> 0, path |-> "", sha |-> 0, status |-> ""]
NoSnap == [file |-> {}, bfa |-> {}, chunk |-> {}, branch |-> [b \in Branches |-> [status |-> "none", commit |-> 0]], nextId |-> 0]
NoVec == [path |-> "", src |-> 0, num |-> 0]
NoOut == [kind |-> "none", results |-> <<>>, chunksProcessed |-> 0]
ErrorOut == [kind |-> "error", results |-> <<>>, chunksProcessed |-> 0]
NoLimit == 0 - 1
NoCall == [op |-> "none"]
NoNotifier == [observed |-> FALSE, isActive |-> FALSE, currentProgress |-> 0, received |-> <<>>, beats |-> 0]
EMBEDDING_MODEL == "unclemusclez/jina-embeddings-v2-base-code"
MockEmbedding == [path |-> "mock", src |-> 1, num |-> 0]
Production == [ENV |-> "production", endpoint |-> "embed"]
PlainRequest == [q |-> <<1, 1>>, limit |-> NoLimit, keywords |-> <<>>]
NoWrites == [fileIns |-> 0, shaUpd |-> 0, bfaIns |-> 0, bfaDel |-> 0, fileDel |-> 0, chunkDel |-> 0]
NoSync == [branch |-> "", listing |-> <<>>, ok |-> FALSE]

EmptyDb == [file |-> {}, bfa |-> {}, chunk |-> {}, branch |-> [b \in Branches |-> [status |-> "none", commit |-> 0]], nextId |-> 1]

InitLoc == [kind |-> "", branch |-> "", filt |-> Paths, needsUpdate |-> FALSE, listing |-> <<>>, todo |-> <<>>, emap |-> [p \in Paths |-> NoFile], l0 |-> [p \in Paths |-> 0], cls |-> [p \in Paths |-> {}], filesToProcess |-> <<>>, writes |-> NoWrites, sweep |-> "none", repeat |-> FALSE, updatedIds |-> {}, pending |-> <<>>, cur |-> NoFile, content |-> 0, lastStored |-> [id |-> 0, content |-> 0], batchTodo |-> <<>>, processed |-> 0, results |-> <<>>, skipped |-> {}, scanned |-> FALSE, rows1 |-> 0, unembAtScan |-> FALSE, chunksAtScan |-> FALSE, unembAtCheck |-> FALSE, embedCalls |-> 0, rescanned |-> FALSE, observer |-> FALSE, total |-> 0, notes |-> <<>>, calls |-> 0, embeddings |-> <<>>, q |-> <<>>, limit |-> NoLimit, keywords |-> <<>>]

VARIABLES db, snap, txOwner, tree, head, wc, pc, loc, out, lastSync, env, call, notifier

vars == <<db, snap, txOwner, tree, head, wc, pc, loc, out, lastSync, env, call, notifier>>

----------------------------------------------------------------------------
(* Pure helpers *)

Extension(path) == IF path = "a.zip" THEN "zip" ELSE "ts"

extensionToSplitter_text(extension) == "text"

extensionToSplitter(extension) == CASE extension \in {"zip", "tar", "gz", "jar", "class", "o", "obj"} -> "ignore" [] extension \in {"ts", "js", "tsx", "jsx"} -> "js" [] OTHER -> "text"

ChunkCount(content) == content + 1

ChunkText(path, content, n) == [path |-> path, src |-> content, num |-> n]

EmbedOf(text) == text

ListingOf(t) == LET present == SelectSeq(PathOrder, LAMBDA p : t[p] # 0) IN [k \in 1..Len(present) |-> [path |-> present[k], sha |-> t[present[k]]]]

ListingSet(l) == {<<l[k].path, l[k].sha>> : k \in 1..Len(l)}

BranchFiles(d, b) == {f \in d.file : <<b, f.id>> \in d.bfa}

AssocPairs(d, b) == {<<f.path, f.sha>> : f \in BranchFiles(d, b)}

BranchChunks(d, b) == {c \in d.chunk : \E f \in BranchFiles(d, b) : f.id = c.file}

FileById(d, id) == IF \E f \in d.file : f.id = id THEN CHOOSE f \in d.file : f.id = id ELSE NoFile

RECURSIVE SetToSeq(_)
SetToSeq(S) == IF S = {} THEN <<>> ELSE LET x == CHOOSE y \in S : TRUE IN <<x>> \o SetToSeq(S \ {x})

HeadSum == head["A"] + head["B"]

ShaChanged_always(existingSha, sha) == TRUE

ShaChanged(existingSha, sha) == existingSha # sha

ForgetPath_keep(emap, path) == emap

ForgetPath(emap, path) == [emap EXCEPT ![path] = NoFile]

existingFileInDB_none(files, path, sha) == {}

existingFileInDB(files, path, sha) == {f \in files : f.path = path /\ f.sha = sha}

NeedsBackfill_anyMissing(results, count) == count > 0

NeedsBackfill_noCount(results, count) == Len(results) = 0

NeedsBackfill(results, count) == Len(results) = 0 /\ count > 0

FileStillInUse_always(bfa, id) == TRUE

FileStillInUse(bfa, id) == \E a \in bfa : a[2] = id

UniqueViolation(files, id, path, sha) == \E g \in files : g.id # id /\ g.path = path /\ g.sha = sha

Rollback_keep(current, saved) == current

Rollback(current, saved) == saved

SetStatus(files, id, st) == {IF f.id = id THEN [f EXCEPT !.status = st] ELSE f : f \in files}

InsertChunks_replace(chunks, file, content) == {c \in chunks : c.file # file.id \/ c.num \notin 1..ChunkCount(content)} \cup {[file |-> file.id, num |-> n, text |-> ChunkText(file.path, content, n), emb |-> NoVec, model |-> ""] : n \in 1..ChunkCount(content)}

InsertChunks_always(chunks, file, content) == chunks \cup {[file |-> file.id, num |-> n, text |-> ChunkText(file.path, content, n), emb |-> NoVec, model |-> ""] : n \in 1..ChunkCount(content)}

InsertChunks(chunks, file, content) == chunks \cup {[file |-> file.id, num |-> n, text |-> ChunkText(file.path, content, n), emb |-> NoVec, model |-> ""] : n \in {m \in 1..ChunkCount(content) : ~ \E c \in chunks : c.file = file.id /\ c.num = m}}

Coordinates(emb) == <<emb.src, emb.num>>

RECURSIVE DotProduct(_, _, _)
DotProduct(v, q, key) == IF key > Len(v) THEN 0 ELSE (IF key <= Len(q) THEN v[key] * q[key] ELSE 0) + DotProduct(v, q, key + 1)

Similarity(emb, q, divisor) == [n |-> DotProduct(Coordinates(emb), q, 1), d |-> divisor]

ScanRows(d, b, filt, q, divisor) == {[path |-> cf[2].path, num |-> cf[1].num, text |-> cf[1].text, similarity |-> Similarity(cf[1].emb, q, divisor)] : cf \in {x \in d.chunk \X BranchFiles(d, b) : x[1].file = x[2].id /\ x[1].emb # NoVec /\ x[2].path \in filt}}

GreaterEq(a, b) == a.n * b.d >= b.n * a.d

RECURSIVE OrderBy(_)
OrderBy(rows) == IF rows = {} THEN {<<>>} ELSE UNION {{<<r>> \o s : s \in OrderBy(rows \ {r})} : r \in {x \in rows : \A y \in rows : GreaterEq(x.similarity, y.similarity)}}

effectiveLimit_default(limit) == 10

effectiveLimit(limit) == IF limit = NoLimit THEN 10 ELSE limit

ChunksWithoutEmbeddings_all(d, b) == BranchChunks(d, b)

ChunksWithoutEmbeddings(d, b) == {c \in BranchChunks(d, b) : c.emb = NoVec}

generateOllamaEmbeddings(texts, failed, e) ==
  IF e.endpoint = "embed"
  THEN IF failed = {}
       THEN [kind |-> "ok", vectors |-> [k \in 1..Len(texts) |-> EmbedOf(texts[k])]]
       ELSE IF e.ENV = "test"
            THEN [kind |-> "ok", vectors |-> [k \in 1..Len(texts) |-> MockEmbedding]]
            ELSE [kind |-> "throw", vectors |-> <<>>]
  ELSE [kind |-> "ok", vectors |-> [k \in 1..Len(texts) |-> IF k \in failed THEN MockEmbedding ELSE EmbedOf(texts[k])]]

StoreEmbeddings_first(chunks, batch, embeddings) == {IF batch[1].file = c.file /\ batch[1].num = c.num THEN [c EXCEPT !.emb = embeddings[1], !.model = EMBEDDING_MODEL] ELSE c : c \in chunks}

StoreEmbeddings(chunks, batch, embeddings) == {IF \E j \in 1..Len(batch) : batch[j].file = c.file /\ batch[j].num = c.num THEN [c EXCEPT !.emb = embeddings[CHOOSE j \in 1..Len(batch) : batch[j].file = c.file /\ batch[j].num = c.num], !.model = EMBEDDING_MODEL] ELSE c : c \in chunks}

Search(d, b, filt, q, divisor, limit) == {SubSeq(s, 1, IF Len(s) < limit THEN Len(s) ELSE limit) : s \in OrderBy(ScanRows(d, b, filt, q, divisor))}

BranchInputs(kind) == IF kind = "default" THEN {""} ELSE Branches \cup {""}

Requests(kind) == IF kind = "search" THEN {[q |-> q, limit |-> limit, keywords |-> keywords] : q \in QueryVectors, limit \in Limits \cup {NoLimit}, keywords \in KeywordLists \cup {<<>>}} ELSE {PlainRequest}

Content(text) == CASE text.num = 1 -> <<"F", "o">> [] text.num = 2 -> <<"o", "X">> [] OTHER -> <<"x", " ">>

toLowerCase(str) == [k \in 1..Len(str) |-> CASE str[k] = "F" -> "f" [] str[k] = "O" -> "o" [] str[k] = "X" -> "x" [] OTHER -> str[k]]

Whitespace == {" ", "\n", "\r", "\t"}

LowerLetters == <<"a", "b", "c", "d", "e", "f", "g", "h", "i", "j", "k", "l", "m", "n", "o", "p", "q", "r", "s", "t", "u", "v", "w", "x", "y", "z">>

UpperLetters == <<"A", "B", "C", "D", "E", "F", "G", "H", "I", "J", "K", "L", "M", "N", "O", "P", "Q", "R", "S", "T", "U", "V", "W", "X", "Y", "Z">>

toUpperCase(str) == [k \in 1..Len(str) |-> IF \E n \in 1..26 : LowerLetters[n] = str[k] THEN UpperLetters[CHOOSE n \in 1..26 : LowerLetters[n] = str[k]] ELSE str[k]]

trim(str) == LET kept == {k \in 1..Len(str) : str[k] \notin Whitespace} IN IF kept = {} THEN <<>> ELSE SubSeq(str, CHOOSE k \in kept : \A m \in kept : k <= m, CHOOSE k \in kept : \A m \in kept : k >= m)

includes(content, keyword) == \E k \in 0..(Len(content) - Len(keyword)) : SubSeq(content, k + 1, k + Len(keyword)) = keyword

KeywordFilter_none(results, keywordsSearch) == results

KeywordFilter(results, keywordsSearch) == IF Len(keywordsSearch) > 0 THEN SelectSeq(results, LAMBDA result : \E j \in 1..Len(keywordsSearch) : includes(toLowerCase(Content(result.text)), toLowerCase(trim(keywordsSearch[j])))) ELSE results

RECURSIVE ReplaceDoubleStars(_)
ReplaceDoubleStars(pattern) ==
  IF pattern = <<>> THEN <<>>
  ELSE IF Len(pattern) >= 2 /\ pattern[1] = "*" /\ pattern[2] = "*" THEN <<"%">> \o ReplaceDoubleStars(SubSeq(pattern, 3, Len(pattern)))
  ELSE <<Head(pattern)>> \o ReplaceDoubleStars(Tail(pattern))

globToSqlPattern(pattern) == LET sqlPattern == ReplaceDoubleStars(pattern) IN [k \in 1..Len(sqlPattern) |-> IF sqlPattern[k] = "*" THEN "%" ELSE sqlPattern[k]]

RECURSIVE Like(_, _)
Like(str, sqlPattern) ==
  IF sqlPattern = <<>> THEN str = <<>>
  ELSE IF Head(sqlPattern) = "%" THEN Like(str, Tail(sqlPattern)) \/ (str # <<>> /\ Like(Tail(str), sqlPattern))
  ELSE str # <<>> /\ (Head(sqlPattern) = "_" \/ Head(sqlPattern) = Head(str)) /\ Like(Tail(str), Tail(sqlPattern))

createFilePatternCondition(path, includePatterns, excludePatterns) ==
  /\ Len(includePatterns) > 0 => \E k \in 1..Len(includePatterns) : Like(path, globToSqlPattern(includePatterns[k]))
  /\ Len(excludePatterns) > 0 => \A k \in 1..Len(excludePatterns) : ~ Like(path, globToSqlPattern(excludePatterns[k]))

Take(s, n) == SubSeq(s, 1, IF Len(s) < n THEN Len(s) ELSE n)

Drop(s, n) == SubSeq(s, (IF Len(s) < n THEN Len(s) ELSE n) + 1, Len(s))

AfterSkip_return(pend) == <<>>

AfterSkip(pend) == Tail(pend)

RECURSIVE ContentLoop(_, _, _, _)
ContentLoop(pend, d, workTree, bad) ==
  IF pend = <<>>
  THEN [state |-> "end", pending |-> <<>>, cur |-> NoFile, content |-> 0, db |-> d, skipped |-> {}]
  ELSE LET file == Head(pend)
           splitType == extensionToSplitter(Extension(file.path))
       IN IF splitType = "ignore"
          THEN ContentLoop(Tail(pend), [d EXCEPT !.file = SetStatus(@, file.id, "done")], workTree, bad)
          ELSE IF workTree[file.path] = 0 \/ file.path \in bad
               THEN [ContentLoop(AfterSkip(pend), d, workTree, bad) EXCEPT !.skipped = @ \cup {file.id}]
               ELSE [state |-> "store", pending |-> Tail(pend), cur |-> file, content |-> workTree[file.path], db |-> d, skipped |-> {}]

AfterSweep(l) == [l EXCEPT !.listing = <<>>, !.l0 = InitLoc.l0, !.cls = InitLoc.cls, !.filesToProcess = <<>>, !.writes = NoWrites, !.sweep = "none", !.repeat = FALSE]

AfterContents(l) == [l EXCEPT !.needsUpdate = FALSE, !.updatedIds = {}, !.skipped = {}, !.pending = <<>>, !.cur = NoFile, !.content = 0, !.lastStored = InitLoc.lastStored]

createHeartbeatNotifier(originalNotifier) == IF originalNotifier THEN [NoNotifier EXCEPT !.observed = TRUE, !.isActive = TRUE] ELSE NoNotifier

sendProgress(n, progress) == IF n.observed THEN [n EXCEPT !.currentProgress = progress, !.received = Append(@, progress)] ELSE n

HeartbeatProgress_initial(n) == 0

HeartbeatProgress(n) == n.currentProgress

stopHeartbeat_never(n) == n

stopHeartbeat(n) == [n EXCEPT !.isActive = FALSE]

AfterEmbed(i) == IF loc[i].kind = "embed" THEN "finish" ELSE "rescan"

Fail_escape(i) == pc' = [pc EXCEPT ![i] = "idle"] /\ out' = [out EXCEPT ![i] = [kind |-> "exception", results |-> <<>>, chunksProcessed |-> 0]] /\ loc' = [loc EXCEPT ![i] = InitLoc]

Fail_success(i) == pc' = [pc EXCEPT ![i] = "idle"] /\ out' = [out EXCEPT ![i] = [kind |-> "success", results |-> <<>>, chunksProcessed |-> loc[i].processed]] /\ loc' = [loc EXCEPT ![i] = InitLoc]

Fail(i) == pc' = [pc EXCEPT ![i] = "idle"] /\ out' = [out EXCEPT ![i] = ErrorOut] /\ loc' = [loc EXCEPT ![i] = InitLoc]

----------------------------------------------------------------------------
(* SQLSchemaSplitter: the statement tokenizer and the INSERT splitter *)

RECURSIVE Concat(_)
Concat(parts) == IF parts = <<>> THEN <<>> ELSE Head(parts) \o Concat(Tail(parts))

SqlPieces == {<<"x">>, <<";">>, <<"'">>, <<"\\">>, <<"-", "-">>, <<"\n">>, <<"/", "*">>, <<"*", "/">>, <<"B", "E", "G", "I", "N">>, <<"E", "N", "D">>, <<"C", "R", "E", "A", "T", "E", " ", "F", "U", "N", "C", "T", "I", "O", "N">>}

SqlTexts == {Concat(parts) : parts \in UNION {[1..n -> SqlPieces] : n \in 1..MaxPieces}}

beginKeywords == <<<<"B", "E", "G", "I", "N">>, <<"B", "B", "E", "G", "I">>, <<"B", "E", "G", "I", "N", "N">>>>

endKeywords == <<<<"E", "N", "D">>, <<"E", "E", "N">>>>

functionKeywords == {<<"C", "R", "E", "A", "T", "E", " ", "F", "U", "N", "C", "T", "I", "O", "N">>, <<"C", "R", "E", "A", "T", "E", " ", "O", "R", " ", "R", "E", "P", "L", "A", "C", "E", " ", "F", "U", "N", "C", "T", "I", "O", "N">>}

procedureKeywords == {<<"C", "R", "E", "A", "T", "E", " ", "P", "R", "O", "C", "E", "D", "U", "R", "E">>, <<"C", "R", "E", "A", "T", "E", " ", "O", "R", " ", "R", "E", "P", "L", "A", "C", "E", " ", "P", "R", "O", "C", "E", "D", "U", "R", "E">>}

viewKeywords == {<<"C", "R", "E", "A", "T", "E", " ", "V", "I", "E", "W">>, <<"C", "R", "E", "A", "T", "E", " ", "O", "R", " ", "R", "E", "P", "L", "A", "C", "E", " ", "V", "I", "E", "W">>}

startsWith(str, index, keyword) == index + Len(keyword) - 1 <= Len(str) /\ SubSeq(str, index, index + Len(keyword) - 1) = keyword

find(keywords, str, index) == LET matching == {k \in 1..Len(keywords) : startsWith(str, index, keywords[k])} IN IF matching = {} THEN <<>> ELSE keywords[CHOOSE k \in matching : \A m \in matching : k <= m]

SqlStart == [index |-> 1, currentStatement |-> <<>>, statements |-> <<>>, insideString |-> FALSE, stringChar |-> "", insideComment |-> FALSE, commentType |-> "", insideFunction |-> FALSE, insideProcedure |-> FALSE, insideView |-> FALSE, insideBlock |-> FALSE, blockLevel |-> 0, cuts |-> <<>>]

(* statements.push(currentStatement.trim()); currentStatement = ""; cuts keeps  *)
(* where in the text, by which branch and in which lexical state it happened    *)
PushStatement(s, at, by) == [s EXCEPT !.statements = Append(@, trim(s.currentStatement)), !.currentStatement = <<>>, !.cuts = Append(@, [at |-> at, by |-> by, insideString |-> s.insideString, insideComment |-> s.insideComment])]

(* the first if/else-if chain of the loop body: strings, comments and the start *)
(* of a compound construct; at is the index the iteration began with            *)
SqlLex(text, upperText, s, at) ==
  LET char == text[at]
  IN IF s.insideString
     THEN IF char = s.stringChar THEN [s EXCEPT !.insideString = FALSE]
          ELSE IF char = "\\" THEN [s EXCEPT !.index = @ + 1, !.currentStatement = IF at + 1 <= Len(text) THEN Append(@, text[at + 1]) ELSE @]
          ELSE s
     ELSE IF s.insideComment
     THEN IF s.commentType = "--" /\ char \in {"\n", "\r"} THEN [s EXCEPT !.insideComment = FALSE]
          ELSE IF s.commentType = "/*" /\ startsWith(upperText, at, <<"*", "/">>) THEN [s EXCEPT !.insideComment = FALSE, !.currentStatement = @ \o <<"*", "/">>, !.index = @ + 1]
          ELSE s
     ELSE IF char \in {"'", "\""} THEN [s EXCEPT !.insideString = TRUE, !.stringChar = char]
     ELSE IF startsWith(upperText, at, <<"/", "*">>) THEN [s EXCEPT !.insideComment = TRUE, !.commentType = "/*", !.currentStatement = @ \o <<"/", "*">>, !.index = @ + 1]
     ELSE IF startsWith(upperText, at, <<"-", "-">>) THEN [s EXCEPT !.insideComment = TRUE, !.commentType = "--", !.currentStatement = @ \o <<"-", "-">>, !.index = @ + 1]
     ELSE IF ~ s.insideFunction /\ ~ s.insideProcedure /\ ~ s.insideView /\ ~ s.insideBlock
     THEN IF \E kw \in functionKeywords : startsWith(upperText, at, kw) THEN [s EXCEPT !.insideFunction = TRUE, !.blockLevel = 0]
          ELSE IF \E kw \in procedureKeywords : startsWith(upperText, at, kw) THEN [s EXCEPT !.insideProcedure = TRUE, !.blockLevel = 0]
          ELSE IF \E kw \in viewKeywords : startsWith(upperText, at, kw) THEN [s EXCEPT !.insideView = TRUE]
          ELSE LET matchedBegin == find(beginKeywords, upperText, at)
               IN IF matchedBegin # <<>>
                  THEN [s EXCEPT !.insideBlock = TRUE, !.blockLevel = 1, !.index = IF Len(matchedBegin) > 5 THEN @ + Len(matchedBegin) - 5 ELSE @, !.currentStatement = IF Len(matchedBegin) > 5 THEN @ \o SubSeq(matchedBegin, 6, Len(matchedBegin)) ELSE @]
                  ELSE s
     ELSE s

(* the second chain of the loop body: block level, END, the statement ends, and *)
(* index++ unless the branch leaves with continue                               *)
SqlCut(text, upperText, s, at) ==
  LET char == text[at]
      matchedBegin == find(beginKeywords, upperText, at)
      matchedEnd == find(endKeywords, upperText, at)
  IN IF s.insideFunction \/ s.insideProcedure \/ s.insideBlock
     THEN IF matchedBegin # <<>>
          THEN [s EXCEPT !.blockLevel = @ + 1, !.index = @ + Len(matchedBegin) - 1, !.currentStatement = @ \o Tail(matchedBegin)]
          ELSE IF matchedEnd # <<>> /\ Len(matchedEnd) \in {3, 4}
               THEN LET e == [s EXCEPT !.blockLevel = @ - 1, !.index = @ + Len(matchedEnd) - 1, !.currentStatement = @ \o Tail(matchedEnd)]
                    IN IF e.blockLevel = 0
                       THEN IF e.insideFunction THEN PushStatement([e EXCEPT !.insideFunction = FALSE], at, "end")
                            ELSE IF e.insideProcedure THEN PushStatement([e EXCEPT !.insideProcedure = FALSE], at, "end")
                            ELSE PushStatement([e EXCEPT !.insideBlock = FALSE], at, "end")
                       ELSE e
               ELSE [s EXCEPT !.index = @ + 1]
     ELSE IF s.insideView
          THEN IF char = ";" THEN [PushStatement([s EXCEPT !.insideView = FALSE], at, ";") EXCEPT !.index = @ + 1] ELSE [s EXCEPT !.index = @ + 1]
          ELSE IF char = ";" THEN [PushStatement(s, at, ";") EXCEPT !.index = @ + 1]
          ELSE [s EXCEPT !.index = @ + 1]

RECURSIVE SqlLoop(_, _, _)
SqlLoop(text, upperText, s) ==
  IF s.index > Len(text) THEN s
  ELSE SqlLoop(text, upperText, SqlCut(text, upperText, SqlLex(text, upperText, [s EXCEPT !.currentStatement = Append(@, text[s.index])], s.index), s.index))

splitSQLStatements(text) ==
  LET s == SqlLoop(text, toUpperCase(text), SqlStart)
  IN IF trim(s.currentStatement) # <<>> THEN PushStatement(s, Len(text) + 1, "rest") ELSE s

ParseStart == [i |-> 1, valuesArray |-> <<>>, currentTuple |-> <<>>, nestingLevel |-> 0, inString |-> FALSE, stringChar |-> "", escapeNext |-> FALSE]

(* the inner while of parseValues: skip any commas and spaces after a tuple *)
RECURSIVE SkipSeparators(_, _)
SkipSeparators(valuesPart, i) == IF i + 1 <= Len(valuesPart) /\ valuesPart[i + 1] \in {",", " ", "\n"} THEN SkipSeparators(valuesPart, i + 1) ELSE i

(* one turn of the for loop of parseValues, its i++ included *)
ParseStep(valuesPart, s) ==
  LET char == valuesPart[s.i]
      t == [s EXCEPT !.i = @ + 1, !.currentTuple = Append(@, char)]
  IN IF s.escapeNext THEN [t EXCEPT !.escapeNext = FALSE]
     ELSE IF char = "\\" THEN [t EXCEPT !.escapeNext = TRUE]
     ELSE IF char \in {"'", "\""}
          THEN IF s.inString /\ char = s.stringChar THEN [t EXCEPT !.inString = FALSE]
               ELSE IF ~ s.inString THEN [t EXCEPT !.inString = TRUE, !.stringChar = char]
               ELSE t
     ELSE IF ~ s.inString
          THEN IF char = "(" THEN [t EXCEPT !.nestingLevel = @ + 1]
               ELSE IF char = ")"
                    THEN IF s.nestingLevel - 1 = 0
                         THEN [t EXCEPT !.nestingLevel = 0, !.valuesArray = Append(@, trim(t.currentTuple)), !.currentTuple = <<>>, !.i = SkipSeparators(valuesPart, s.i) + 1]
                         ELSE [t EXCEPT !.nestingLevel = @ - 1]
                    ELSE t
          ELSE t

RECURSIVE ParseLoop(_, _)
ParseLoop(valuesPart, s) == IF s.i > Len(valuesPart) THEN s ELSE ParseLoop(valuesPart, ParseStep(valuesPart, s))

parseValues(valuesPart) == ParseLoop(valuesPart, ParseStart).valuesArray

(* String.prototype.indexOf, counted from 1; 0 when the keyword is absent *)
indexOf(str, keyword) == LET found == {i \in 1..Len(str) : startsWith(str, i, keyword)} IN IF found = {} THEN 0 ELSE CHOOSE i \in found : \A j \in found : i <= j

(* the for loop of splitInsertStatement over valuesArray and the push after it *)
RECURSIVE InsertLoop(_, _, _, _, _)
InsertLoop(valuesArray, insertIntoPart, maxCharacters, currentValues, insertStatements) ==
  IF valuesArray = <<>>
  THEN IF currentValues # <<>> THEN Append(insertStatements, insertIntoPart \o currentValues \o <<";">>) ELSE insertStatements
  ELSE LET valueTuple == Head(valuesArray)
           newStatementLength == Len(insertIntoPart) + Len(currentValues) + Len(valueTuple) + 1
       IN IF newStatementLength <= maxCharacters
          THEN InsertLoop(Tail(valuesArray), insertIntoPart, maxCharacters, IF currentValues # <<>> THEN currentValues \o <<",">> \o valueTuple ELSE valueTuple, insertStatements)
          ELSE InsertLoop(Tail(valuesArray), insertIntoPart, maxCharacters, valueTuple, Append(insertStatements, insertIntoPart \o currentValues \o <<";">>))

splitInsertStatement(statement, maxCharacters) ==
  LET insertIndex == indexOf(toUpperCase(statement), <<"V", "A", "L", "U", "E", "S">>)
      insertIntoPart == SubSeq(statement, 1, insertIndex + 5) \o <<" ">>
      valuesPart == SubSeq(statement, insertIndex + 6, Len(statement))
  IN IF insertIndex = 0 THEN <<statement>>
     ELSE InsertLoop(parseValues(valuesPart), insertIntoPart, maxCharacters, <<>>, <<>>)

(* INSERT statements of up to MaxTuples value tuples and the budgets around     *)
(* the length of a statement of one, two and three of them                      *)
InsertHead == <<"I", "N", "S", "E", "R", "T", " ", "I", "N", "T", "O", " ", "T", " ", "V", "A", "L", "U", "E", "S", " ">>

InsertTuples == {<<"(", "1", ")">>, <<"(", "2", "2", ")">>, <<"(", "'", ")", "'", ")">>, <<"(", "(", "3", ")", ")">>}

RECURSIVE Join(_)
Join(tuples) == IF tuples = <<>> THEN <<>> ELSE IF Len(tuples) = 1 THEN tuples[1] ELSE tuples[1] \o <<",">> \o Join(Tail(tuples))

TupleLists == UNION {[1..n -> InsertTuples] : n \in 1..MaxTuples}

Budgets == 24..34

(* String.prototype.split("\n") *)
RECURSIVE splitLines(_, _)
splitLines(statement, line) ==
  IF statement = <<>> THEN <<line>>
  ELSE IF Head(statement) = "\n" THEN <<line>> \o splitLines(Tail(statement), <<>>)
  ELSE splitLines(Tail(statement), Append(line, Head(statement)))

(* the loop of splitText over the lines of a statement longer than the budget   *)
(* and the push of the last split after it                                      *)
RECURSIVE LineLoop(_, _, _, _)
LineLoop(lines, maxCharacters, currentSplit, splits) ==
  IF lines = <<>>
  THEN IF currentSplit # <<>> THEN Append(splits, currentSplit) ELSE splits
  ELSE LET line == Head(lines)
       IN IF Len(currentSplit) + Len(line) + 1 <= maxCharacters
          THEN LineLoop(Tail(lines), maxCharacters, (IF currentSplit # <<>> THEN currentSplit \o <<"\n">> ELSE <<>>) \o line, splits)
          ELSE LineLoop(Tail(lines), maxCharacters, line, IF currentSplit # <<>> THEN Append(splits, currentSplit) ELSE splits)

(* the body of the loop of splitText for one statement *)
SplitOne(statement, maxCharacters) ==
  IF includes(toUpperCase(statement), <<"I", "N", "S", "E", "R", "T", " ", "I", "N", "T", "O">>) /\ includes(toUpperCase(statement), <<"V", "A", "L", "U", "E", "S">>)
  THEN splitInsertStatement(statement, maxCharacters)
  ELSE IF Len(statement) <= maxCharacters THEN <<statement>>
       ELSE LineLoop(splitLines(statement, <<>>), maxCharacters, <<>>, <<>>)

RECURSIVE SplitEach(_, _)
SplitEach(statements, maxCharacters) == IF statements = <<>> THEN <<>> ELSE SplitOne(Head(statements), maxCharacters) \o SplitEach(Tail(statements), maxCharacters)

splitText(text, maxCharacters) == SplitEach(splitSQLStatements(text).statements, maxCharacters)

(* Scripts for splitText: an INSERT statement with or without a clause after    *)
(* its last tuple, and statements of several short lines under a small budget   *)
InsertTails == {<<>>, <<" ", "x">>}

LinePieces == {<<"x">>, <<"y", "y">>, <<"\n">>, <<";">>}

LineTexts == {Concat(parts) : parts \in UNION {[1..n -> LinePieces] : n \in 1..MaxPieces}}

LineBudgets == 1..3

(* What the documentation of the tokenizer describes, read off the text alone:  *)
(* literal is the set of positions inside a string literal or a comment, inside *)
(* the positions inside a compound construct, tops the positions of the `;`     *)
(* outside all of them, terms the positions of the END keywords that return the *)
(* depth of a construct to zero, last the position where the last statement     *)
(* ended, ok whether no END came without a BEGIN                                *)
RefStart == [i |-> 1, mode |-> "code", quote |-> "", construct |-> "none", depth |-> 0, literal |-> {}, inside |-> {}, tops |-> {}, terms |-> {}, last |-> 0, ok |-> TRUE]

RefStep(text, upperText, r) ==
  LET i == r.i
      char == text[i]
      matchedBegin == find(beginKeywords, upperText, i)
      matchedEnd == find(endKeywords, upperText, i)
  IN IF r.mode = "string"
     THEN IF char = "\\" THEN [r EXCEPT !.i = i + 2, !.literal = @ \cup ({i, i + 1} \cap (1..Len(text)))]
          ELSE IF char = r.quote THEN [r EXCEPT !.i = i + 1, !.literal = @ \cup {i}, !.mode = "code"]
          ELSE [r EXCEPT !.i = i + 1, !.literal = @ \cup {i}]
     ELSE IF r.mode = "line"
     THEN [r EXCEPT !.i = i + 1, !.literal = @ \cup {i}, !.mode = IF char \in {"\n", "\r"} THEN "code" ELSE @]
     ELSE IF r.mode = "block"
     THEN IF startsWith(text, i, <<"*", "/">>) THEN [r EXCEPT !.i = i + 2, !.literal = @ \cup {i, i + 1}, !.mode = "code"]
          ELSE [r EXCEPT !.i = i + 1, !.literal = @ \cup {i}]
     ELSE IF char \in {"'", "\""} THEN [r EXCEPT !.i = i + 1, !.literal = @ \cup {i}, !.mode = "string", !.quote = char]
     ELSE IF startsWith(text, i, <<"/", "*">>) THEN [r EXCEPT !.i = i + 2, !.literal = @ \cup {i, i + 1}, !.mode = "block"]
     ELSE IF startsWith(text, i, <<"-", "-">>) THEN [r EXCEPT !.i = i + 2, !.literal = @ \cup {i, i + 1}, !.mode = "line"]
     ELSE IF r.construct = "none"
     THEN IF \E kw \in functionKeywords \cup procedureKeywords : startsWith(upperText, i, kw)
          THEN [r EXCEPT !.i = i + 1, !.construct = "routine", !.depth = 0, !.inside = @ \cup {i}]
          ELSE IF matchedBegin # <<>> THEN [r EXCEPT !.i = i + Len(matchedBegin), !.construct = "block", !.depth = 1, !.inside = @ \cup (i..(i + Len(matchedBegin) - 1))]
          ELSE IF matchedEnd # <<>> THEN [r EXCEPT !.i = i + Len(matchedEnd), !.ok = FALSE]
          ELSE IF char = ";" THEN [r EXCEPT !.i = i + 1, !.tops = @ \cup {i}, !.last = i]
          ELSE [r EXCEPT !.i = i + 1]
     ELSE IF matchedBegin # <<>> THEN [r EXCEPT !.i = i + Len(matchedBegin), !.depth = @ + 1, !.inside = @ \cup (i..(i + Len(matchedBegin) - 1))]
     ELSE IF matchedEnd # <<>>
          THEN IF r.depth = 0 THEN [r EXCEPT !.i = i + Len(matchedEnd), !.ok = FALSE]
               ELSE IF r.depth = 1 THEN [r EXCEPT !.i = i + Len(matchedEnd), !.depth = 0, !.construct = "none", !.terms = @ \cup {i}, !.last = i + Len(matchedEnd) - 1, !.inside = @ \cup (i..(i + Len(matchedEnd) - 1))]
               ELSE [r EXCEPT !.i = i + Len(matchedEnd), !.depth = @ - 1, !.inside = @ \cup (i..(i + Len(matchedEnd) - 1))]
     ELSE [r EXCEPT !.i = i + 1, !.inside = @ \cup {i}]

RECURSIVE RefLoop(_, _, _)
RefLoop(text, upperText, r) == IF r.i > Len(text) THEN r ELSE RefLoop(text, upperText, RefStep(text, upperText, r))

Reference(text) == RefLoop(text, toUpperCase(text), RefStart)

(* every string and block comment is closed and every BEGIN has its END *)
Balanced(r) == r.ok /\ r.mode = "code" /\ r.depth = 0

----------------------------------------------------------------------------
(* Initial state: empty store, freshly cloned working copy *)

Init ==
  /\ db = EmptyDb
  /\ snap = NoSnap
  /\ txOwner = 0
  /\ tree \in InitTrees
  /\ head = [b \in Branches |-> 0]
  /\ wc = DefaultBranch
  /\ pc = [i \in Inv |-> "idle"]
  /\ loc = [i \in Inv |-> InitLoc]
  /\ out = [i \in Inv |-> NoOut]
  /\ lastSync = NoSync
  /\ env = Production
  /\ call = NoCall
  /\ notifier = [i \in Inv |-> NoNotifier]

(* A store left by earlier invocations (the SQLite file outlives the process): *)
(* branch A was queried and fully embedded, branch B was queried while its     *)
(* file could not be read and was skipped, then the head of A moved            *)
ConcDb == [file |-> {[id |-> 1, path |-> "x.ts", sha |-> 1, status |-> "fetched"], [id |-> 2, path |-> "x.ts", sha |-> 2, status |-> "pending"]}, bfa |-> {<<"A", 1>>, <<"B", 2>>}, chunk |-> {[file |-> 1, num |-> n, text |-> ChunkText("x.ts", 1, n), emb |-> EmbedOf(ChunkText("x.ts", 1, n)), model |-> EMBEDDING_MODEL] : n \in 1..ChunkCount(1)}, branch |-> [b \in Branches |-> IF b = "A" THEN [status |-> "embeddings_generated", commit |-> 0] ELSE [status |-> "files_processed", commit |-> 0]], nextId |-> 3]

InitConc ==
  /\ db = ConcDb
  /\ snap = NoSnap
  /\ txOwner = 0
  /\ tree \in {t \in [Branches -> Trees] : t["B"] = OnlyX(2) /\ t["A"] # OnlyX(1)}
  /\ head = [b \in Branches |-> IF b = "A" THEN 1 ELSE 0]
  /\ wc = "B"
  /\ pc = [i \in Inv |-> "idle"]
  /\ loc = [i \in Inv |-> InitLoc]
  /\ out = [i \in Inv |-> NoOut]
  /\ lastSync = [branch |-> "B", listing |-> ListingOf(OnlyX(2)), ok |-> TRUE]
  /\ env = Production
  /\ call = NoCall
  /\ notifier = [i \in Inv |-> NoNotifier]

(* A store left by an earlier invocation: branch A was queried when it held   *)
(* only the archive, which was marked done without chunks; then the head of A *)
(* moved to a commit that drops the archive and adds x.ts. The heads do not   *)
(* move any more                                                              *)
PairDb == [file |-> {[id |-> 1, path |-> "a.zip", sha |-> 1, status |-> "done"]}, bfa |-> {<<"A", 1>>}, chunk |-> {}, branch |-> [b \in Branches |-> IF b = "A" THEN [status |-> "files_processed", commit |-> 0] ELSE [status |-> "none", commit |-> 0]], nextId |-> 2]

InitPair ==
  /\ db = PairDb
  /\ snap = NoSnap
  /\ txOwner = 0
  /\ tree \in InitTrees
  /\ head = [b \in Branches |-> IF b = "A" THEN 1 ELSE 0]
  /\ wc = "A"
  /\ pc = [i \in Inv |-> "idle"]
  /\ loc = [i \in Inv |-> InitLoc]
  /\ out = [i \in Inv |-> NoOut]
  /\ lastSync = [branch |-> "A", listing |-> ListingOf([p \in Paths |-> IF p = "a.zip" THEN 1 ELSE 0]), ok |-> TRUE]
  /\ env = Production
  /\ call = NoCall
  /\ notifier = [i \in Inv |-> NoNotifier]

(* Stores left by earlier queryRepo invocations, for the runs of embedFiles:    *)
(* in the first, branch B was chunked and the query then failed before its     *)
(* scan, and branch A was queried after its tree became empty; in the second,  *)
(* branch A was queried and fully embedded, its head moved, and the next query *)
(* registered the new commit and failed before its sweep                       *)
EmbedDbs == {
  [db |-> [file |-> {[id |-> 1, path |-> "x.ts", sha |-> 2, status |-> "fetched"]}, bfa |-> {<<"B", 1>>}, chunk |-> InsertChunks({}, [id |-> 1, path |-> "x.ts"], 2), branch |-> [b \in Branches |-> IF b = "A" THEN [status |-> "files_processed", commit |-> 1] ELSE [status |-> "files_processed", commit |-> 0]], nextId |-> 2],
   tree |-> [b \in Branches |-> IF b = "A" THEN [p \in Paths |-> 0] ELSE OnlyX(2)],
   lastSync |-> [branch |-> "A", listing |-> <<>>, ok |-> TRUE]],
  [db |-> [file |-> {[id |-> 1, path |-> "x.ts", sha |-> 1, status |-> "fetched"]}, bfa |-> {<<"A", 1>>}, chunk |-> {[file |-> 1, num |-> n, text |-> ChunkText("x.ts", 1, n), emb |-> EmbedOf(ChunkText("x.ts", 1, n)), model |-> EMBEDDING_MODEL] : n \in 1..ChunkCount(1)}, branch |-> [b \in Branches |-> IF b = "A" THEN [status |-> "pending", commit |-> 1] ELSE [status |-> "none", commit |-> 0]], nextId |-> 2],
   tree |-> [b \in Branches |-> IF b = "A" THEN OnlyX(2) ELSE OnlyX(1)],
   lastSync |-> [branch |-> "A", listing |-> ListingOf(OnlyX(1)), ok |-> TRUE]]}

InitEmbed ==
  /\ \E s \in EmbedDbs : db = s.db /\ tree = s.tree /\ lastSync = s.lastSync
  /\ snap = NoSnap
  /\ txOwner = 0
  /\ head = [b \in Branches |-> IF b = "A" THEN 1 ELSE 0]
  /\ wc = "A"
  /\ pc = [i \in Inv |-> "idle"]
  /\ loc = [i \in Inv |-> InitLoc]
  /\ out = [i \in Inv |-> NoOut]
  /\ env \in [ENV : Modes, endpoint : Endpoints]
  /\ call = NoCall
  /\ notifier = [i \in Inv |-> NoNotifier]

(* The path filter of the scan on its own: include patterns, exclude patterns   *)
(* and the path of a file of the branch                                        *)
InitPattern ==
  /\ db = EmptyDb
  /\ snap = NoSnap
  /\ txOwner = 0
  /\ tree = [b \in Branches |-> OnlyX(1)]
  /\ head = [b \in Branches |-> 0]
  /\ wc = DefaultBranch
  /\ pc = [i \in Inv |-> "idle"]
  /\ loc = [i \in Inv |-> InitLoc]
  /\ out = [i \in Inv |-> NoOut]
  /\ lastSync = NoSync
  /\ env = Production
  /\ call \in [op : {"scan"}, filePatterns : IncludeLists, excludePatterns : ExcludeLists, path : PathStrings, kept : {FALSE}]
  /\ notifier = [i \in Inv |-> NoNotifier]

(* the WHERE clause of the scan decides whether the rows of the path are kept *)
FilterPath ==
  /\ call.op = "scan"
  /\ call' = [call EXCEPT !.op = "scanned", !.kept = createFilePatternCondition(call.path, call.filePatterns, call.excludePatterns)]
  /\ UNCHANGED <<db, snap, txOwner, tree, head, wc, pc, loc, out, lastSync, env, notifier>>

(* The SQL splitter on its own: a script handed to the statement tokenizer, or  *)
(* an INSERT statement handed to the INSERT splitter with a size budget         *)
InitSql ==
  /\ db = EmptyDb
  /\ snap = NoSnap
  /\ txOwner = 0
  /\ tree = [b \in Branches |-> OnlyX(1)]
  /\ head = [b \in Branches |-> 0]
  /\ wc = DefaultBranch
  /\ pc = [i \in Inv |-> "idle"]
  /\ loc = [i \in Inv |-> InitLoc]
  /\ out = [i \in Inv |-> NoOut]
  /\ lastSync = NoSync
  /\ env = Production
  /\ call \in [op : {"split"}, text : SqlTexts, tuples : {<<>>}, maxCharacters : {0}, statements : {<<>>}, cuts : {<<>>}]
            \cup {[op |-> "insert", text |-> InsertHead \o Join(tuples) \o <<";">>, tuples |-> tuples, maxCharacters |-> budget, statements |-> <<>>, cuts |-> <<>>] : tuples \in TupleLists, budget \in Budgets}
            \cup {[op |-> "chunk", text |-> InsertHead \o Join(tuples) \o tail \o <<";">>, tuples |-> tuples, maxCharacters |-> budget, statements |-> <<>>, cuts |-> <<>>] : tuples \in TupleLists, tail \in InsertTails, budget \in Budgets}
            \cup [op : {"chunk"}, text : LineTexts, tuples : {<<>>}, maxCharacters : LineBudgets, statements : {<<>>}, cuts : {<<>>}]
  /\ notifier = [i \in Inv |-> NoNotifier]

(* splitText hands the whole script to splitSQLStatements *)
SplitStatements ==
  /\ call.op = "split"
  /\ LET r == splitSQLStatements(call.text)
     IN call' = [call EXCEPT !.op = "splitDone", !.statements = r.statements, !.cuts = r.cuts]
  /\ UNCHANGED <<db, snap, txOwner, tree, head, wc, pc, loc, out, lastSync, env, notifier>>

(* splitText hands a statement with INSERT INTO and VALUES to splitInsertStatement *)
SplitInsert ==
  /\ call.op = "insert"
  /\ call' = [call EXCEPT !.op = "insertDone", !.statements = splitInsertStatement(call.text, call.maxCharacters)]
  /\ UNCHANGED <<db, snap, txOwner, tree, head, wc, pc, loc, out, lastSync, env, notifier>>

(* splitDocument hands the sanitized text of a .sql file to splitText; the      *)
(* chunks are its result                                                        *)
SplitText ==
  /\ call.op = "chunk"
  /\ call' = [call EXCEPT !.op = "chunkDone", !.statements = splitText(call.text, call.maxCharacters)]
  /\ UNCHANGED <<db, snap, txOwner, tree, head, wc, pc, loc, out, lastSync, env, notifier>>

(* The VCS collaborator: a branch head moves to a new commit with a new tree *)
Commit(b) ==
  /\ txOwner = 0
  /\ HeadSum < MaxCommits
  /\ \E t \in Trees :
       /\ t # tree[b]
       /\ tree' = [tree EXCEPT ![b] = t]
  /\ head' = [head EXCEPT ![b] = @ + 1]
  /\ UNCHANGED <<db, snap, txOwner, wc, pc, loc, out, lastSync, env, call, notifier>>

(* A caller invokes queryRepo (index.ts) or the embedFiles tool; the payload of *)
(* the invocation before, if any, has been delivered                           *)
QStart(i, kinds) ==
  /\ pc[i] = "idle"
  /\ txOwner = 0
  /\ \E kind \in kinds :
       /\ \E observer \in (IF kind = "embed" THEN BOOLEAN ELSE {FALSE}) :
            loc' = [loc EXCEPT ![i] = [InitLoc EXCEPT !.kind = kind, !.observer = observer]]
       /\ pc' = [pc EXCEPT ![i] = IF kind = "embed" THEN "embedStart" ELSE "ingest"]
       /\ notifier' = [notifier EXCEPT ![i] = sendProgress(createHeartbeatNotifier(kind = "watched"), 5)]
  /\ out' = [out EXCEPT ![i] = NoOut]
  /\ UNCHANGED <<db, snap, txOwner, tree, head, wc, lastSync, env, call>>

(* queryRepo: the input is missing, or it lacks the repository or both the     *)
(* query text and the keywords: the error payload is returned before any       *)
(* progress is sent, and the finally block stops the heartbeat just created    *)
QReject(i, kinds) ==
  /\ pc[i] = "idle"
  /\ txOwner = 0
  /\ \E kind \in kinds \ {"embed"} :
       notifier' = [notifier EXCEPT ![i] = stopHeartbeat(createHeartbeatNotifier(kind = "watched"))]
  /\ out' = [out EXCEPT ![i] = ErrorOut]
  /\ loc' = [loc EXCEPT ![i] = InitLoc]
  /\ UNCHANGED <<db, snap, txOwner, tree, head, wc, pc, lastSync, env, call>>

(* ingestBranch: resolve the branch and check it out *)
IngestCheckout(i) ==
  /\ pc[i] = "ingest"
  /\ txOwner = 0
  /\ \/ /\ Fail(i)
        /\ notifier' = [notifier EXCEPT ![i] = stopHeartbeat(sendProgress(@, 25))]
        /\ UNCHANGED wc
     \/ \E branch \in BranchInputs(loc[i].kind) :
          LET actualBranch == IF branch = "" THEN wc ELSE branch IN
            /\ wc' = actualBranch
            /\ loc' = [loc EXCEPT ![i].branch = actualBranch]
            /\ pc' = [pc EXCEPT ![i] = "register"]
            /\ UNCHANGED <<out, notifier>>
  /\ UNCHANGED <<db, snap, txOwner, tree, head, lastSync, env, call>>

(* ingestBranch: register the branch and decide needsUpdate *)
IngestRegister(i) ==
  /\ pc[i] = "register"
  /\ txOwner = 0
  /\ LET b == loc[i].branch
         latestCommit == head[b]
         branchExists == db.branch[b]
         shaChanged == branchExists.commit # latestCommit
         needsUpdate == IF branchExists.status = "none" THEN TRUE ELSE shaChanged \/ branchExists.status # "embeddings_generated"
     IN
       /\ db' = IF branchExists.status = "none" \/ shaChanged THEN [db EXCEPT !.branch[b] = [status |-> "pending", commit |-> latestCommit]] ELSE db
       /\ loc' = [loc EXCEPT ![i].needsUpdate = needsUpdate]
       /\ pc' = [pc EXCEPT ![i] = IF needsUpdate THEN "list" ELSE "qembed"]
       /\ notifier' = [notifier EXCEPT ![i] = IF needsUpdate THEN sendProgress(@, 25) ELSE sendProgress(sendProgress(@, 25), 50)]
  /\ UNCHANGED <<snap, txOwner, tree, head, wc, out, lastSync, env, call>>

(* processFiles: getRepositoryFiles checks the branch out and lists its tree *)
ListFiles(i) ==
  /\ pc[i] = "list"
  /\ txOwner = 0
  /\ \/ /\ Fail(i)
        /\ notifier' = [notifier EXCEPT ![i] = stopHeartbeat(sendProgress(@, 50))]
        /\ UNCHANGED wc
     \/ /\ wc' = loc[i].branch
        /\ loc' = [loc EXCEPT ![i].listing = ListingOf(tree[loc[i].branch])]
        /\ pc' = [pc EXCEPT ![i] = "sweep"]
        /\ UNCHANGED <<out, notifier>>
  /\ UNCHANGED <<db, snap, txOwner, tree, head, lastSync, env, call>>

(* processFiles: the transaction opens and reads the files associated with the branch *)
SweepBegin(i) ==
  /\ pc[i] = "sweep"
  /\ txOwner = 0
  /\ txOwner' = i
  /\ snap' = db
  /\ LET b == loc[i].branch
         existingFiles == BranchFiles(db, b)
         existingFileMap == [p \in Paths |-> IF \E f \in existingFiles : f.path = p THEN CHOOSE f \in existingFiles : f.path = p ELSE NoFile]
     IN loc' = [loc EXCEPT ![i].emap = existingFileMap, ![i].todo = loc[i].listing, ![i].l0 = [p \in Paths |-> existingFileMap[p].sha], ![i].sweep = "open", ![i].repeat = (lastSync = [branch |-> b, listing |-> loc[i].listing, ok |-> TRUE])]
  /\ pc' = [pc EXCEPT ![i] = "sweepLoop"]
  /\ UNCHANGED <<db, tree, head, wc, out, lastSync, env, call, notifier>>

(* processFiles: one iteration of the loop over the listing *)
SweepEntry(i) ==
  /\ pc[i] = "sweepLoop"
  /\ txOwner = i
  /\ loc[i].todo # <<>>
  /\ LET b == loc[i].branch
         file == Head(loc[i].todo)
         existingFile == loc[i].emap[file.path]
         rest == [loc[i] EXCEPT !.todo = Tail(@), !.emap = ForgetPath(@, file.path)]
         inDB == existingFileInDB(db.file, file.path, file.sha)
     IN
       IF existingFile = NoFile
       THEN IF inDB # {}
            THEN LET fileId == (CHOOSE f \in inDB : TRUE).id
                     associationExists == <<b, fileId>> \in db.bfa
                 IN /\ db' = [db EXCEPT !.bfa = @ \cup {<<b, fileId>>}]
                    /\ loc' = [loc EXCEPT ![i] = [rest EXCEPT !.filesToProcess = Append(@, [id |-> fileId, path |-> file.path]), !.cls[file.path] = @ \cup {"new"}, !.writes.bfaIns = IF associationExists THEN @ ELSE @ + 1]]
                    /\ UNCHANGED <<snap, txOwner, pc, out, lastSync, notifier>>
            ELSE LET fileId == db.nextId
                 IN /\ db' = [db EXCEPT !.file = @ \cup {[id |-> fileId, path |-> file.path, sha |-> file.sha, status |-> "pending"]}, !.nextId = @ + 1, !.bfa = @ \cup {<<b, fileId>>}]
                    /\ loc' = [loc EXCEPT ![i] = [rest EXCEPT !.filesToProcess = Append(@, [id |-> fileId, path |-> file.path]), !.cls[file.path] = @ \cup {"new"}, !.writes.fileIns = @ + 1, !.writes.bfaIns = @ + 1]]
                    /\ UNCHANGED <<snap, txOwner, pc, out, lastSync, notifier>>
       ELSE IF ShaChanged(existingFile.sha, file.sha)
            THEN IF UniqueViolation(db.file, existingFile.id, file.path, file.sha)
                 THEN /\ db' = Rollback(db, snap)
                      /\ snap' = NoSnap
                      /\ txOwner' = 0
                      /\ lastSync' = NoSync
                      /\ notifier' = [notifier EXCEPT ![i] = stopHeartbeat(sendProgress(@, 50))]
                      /\ Fail(i)
                 ELSE /\ db' = [db EXCEPT !.file = (@ \ {FileById(db, existingFile.id)}) \cup {[FileById(db, existingFile.id) EXCEPT !.sha = file.sha, !.status = "pending"]}]
                      /\ loc' = [loc EXCEPT ![i] = [rest EXCEPT !.filesToProcess = Append(@, [id |-> existingFile.id, path |-> file.path]), !.cls[file.path] = @ \cup {"updated"}, !.writes.shaUpd = @ + 1, !.updatedIds = @ \cup {existingFile.id}]]
                      /\ UNCHANGED <<snap, txOwner, pc, out, lastSync, notifier>>
            ELSE /\ loc' = [loc EXCEPT ![i] = [rest EXCEPT !.cls[file.path] = @ \cup {"unchanged"}]]
                 /\ UNCHANGED <<db, snap, txOwner, pc, out, lastSync, notifier>>
  /\ UNCHANGED <<tree, head, wc, env, call>>

(* processFiles: one iteration of the loop over what is left in existingFileMap *)
SweepRemove(i) ==
  /\ pc[i] = "sweepLoop"
  /\ txOwner = i
  /\ loc[i].todo = <<>>
  /\ \E p \in Paths :
       /\ loc[i].emap[p] # NoFile
       /\ LET file == loc[i].emap[p]
              bfa1 == db.bfa \ {<<loc[i].branch, file.id>>}
              fileStillInUse == FileStillInUse(bfa1, file.id)
              gone == {c \in db.chunk : c.file = file.id}
          IN /\ db' = IF fileStillInUse THEN [db EXCEPT !.bfa = bfa1] ELSE [db EXCEPT !.bfa = bfa1, !.chunk = @ \ gone, !.file = {f \in @ : f.id # file.id}]
             /\ loc' = [loc EXCEPT ![i].emap[p] = NoFile, ![i].cls[p] = @ \cup {"removed"}, ![i].writes.bfaDel = @ + 1, ![i].writes.fileDel = IF fileStillInUse THEN @ ELSE @ + 1, ![i].writes.chunkDel = IF fileStillInUse THEN @ ELSE @ + Cardinality(gone)]
  /\ UNCHANGED <<snap, txOwner, tree, head, wc, pc, out, lastSync, env, call, notifier>>

(* db.ts transaction: the callback returned normally, the sweep commits *)
SweepCommit(i) ==
  /\ pc[i] = "sweepLoop"
  /\ txOwner = i
  /\ loc[i].todo = <<>>
  /\ \A p \in Paths : loc[i].emap[p] = NoFile
  /\ txOwner' = 0
  /\ snap' = NoSnap
  /\ loc' = [loc EXCEPT ![i].sweep = "committed"]
  /\ lastSync' = [branch |-> loc[i].branch, listing |-> loc[i].listing, ok |-> TRUE]
  /\ pc' = [pc EXCEPT ![i] = "procCheckout"]
  /\ UNCHANGED <<db, tree, head, wc, out, env, call, notifier>>

(* processFileContents: checkout of the branch in the shared working copy *)
ProcCheckout(i) ==
  /\ pc[i] = "procCheckout"
  /\ txOwner = 0
  /\ \/ /\ pc' = [pc EXCEPT ![i] = "qembed"]
        /\ loc' = [loc EXCEPT ![i] = AfterContents(AfterSweep(@))]
        /\ notifier' = [notifier EXCEPT ![i] = sendProgress(@, 50)]
        /\ UNCHANGED wc
     \/ /\ wc' = loc[i].branch
        /\ loc' = [loc EXCEPT ![i] = AfterSweep(@)]
        /\ pc' = [pc EXCEPT ![i] = "procPending"]
        /\ UNCHANGED notifier
  /\ UNCHANGED <<db, snap, txOwner, tree, head, out, lastSync, env, call>>

(* processFileContents: select the pending files and run the loop up to the first await *)
ProcPending(i) ==
  /\ pc[i] = "procPending"
  /\ txOwner = 0
  /\ \E bad \in SUBSET {p \in Paths : extensionToSplitter(Extension(p)) # "ignore"} :
       LET pendingFiles == {f \in BranchFiles(db, loc[i].branch) : f.status = "pending"}
           r == ContentLoop(SetToSeq(pendingFiles), db, tree[wc], bad)
       IN /\ db' = r.db
          /\ loc' = [loc EXCEPT ![i].pending = r.pending, ![i].cur = r.cur, ![i].content = r.content, ![i].skipped = r.skipped]
          /\ pc' = [pc EXCEPT ![i] = IF r.state = "store" THEN "store" ELSE "mark"]
  /\ UNCHANGED <<snap, txOwner, tree, head, wc, out, lastSync, env, call, notifier>>

(* processFileContents: store the chunks of the file just split, then go on with the loop *)
ProcStore(i) ==
  /\ pc[i] = "store"
  /\ txOwner = 0
  /\ \E bad \in SUBSET {p \in Paths : extensionToSplitter(Extension(p)) # "ignore"} :
       LET file == loc[i].cur
           exists == FileById(db, file.id) # NoFile
           d1 == IF exists THEN [db EXCEPT !.chunk = InsertChunks(@, file, loc[i].content), !.file = SetStatus(@, file.id, "fetched")] ELSE db
           r == ContentLoop(loc[i].pending, d1, tree[wc], bad)
       IN /\ db' = r.db
          /\ loc' = [loc EXCEPT ![i].pending = r.pending, ![i].cur = r.cur, ![i].content = r.content, ![i].skipped = @ \cup r.skipped, ![i].lastStored = IF exists THEN [id |-> file.id, content |-> loc[i].content] ELSE @]
          /\ pc' = [pc EXCEPT ![i] = IF r.state = "store" THEN "store" ELSE "mark"]
  /\ UNCHANGED <<snap, txOwner, tree, head, wc, out, lastSync, env, call, notifier>>

(* processFiles: the branch becomes files_processed *)
MarkProcessed(i) ==
  /\ pc[i] = "mark"
  /\ txOwner = 0
  /\ db' = [db EXCEPT !.branch[loc[i].branch].status = "files_processed"]
  /\ pc' = [pc EXCEPT ![i] = "qembed"]
  /\ loc' = [loc EXCEPT ![i] = AfterContents(@)]
  /\ notifier' = [notifier EXCEPT ![i] = sendProgress(@, 50)]
  /\ UNCHANGED <<snap, txOwner, tree, head, wc, out, lastSync, env, call>>

(* queryRepo: embed the query text *)
QueryEmbed(i) ==
  /\ pc[i] = "qembed"
  /\ txOwner = 0
  /\ \/ Fail(i) /\ notifier' = [notifier EXCEPT ![i] = stopHeartbeat(@)]
     \/ pc' = [pc EXCEPT ![i] = "scan"] /\ notifier' = [notifier EXCEPT ![i] = sendProgress(@, 60)] /\ UNCHANGED <<out, loc>>
  /\ UNCHANGED <<db, snap, txOwner, tree, head, wc, lastSync, env, call>>

(* queryRepo: first scan over the chunks of the branch that have a vector *)
Scan(i) ==
  /\ pc[i] = "scan"
  /\ txOwner = 0
  /\ \E filt \in Filters : \E req \in Requests(loc[i].kind) :
       LET b == loc[i].branch
       IN \E results \in Search(db, b, filt, req.q, Len(req.q), effectiveLimit(req.limit)) :
            loc' = [loc EXCEPT ![i].filt = filt, ![i].q = req.q, ![i].limit = req.limit, ![i].keywords = req.keywords, ![i].results = results, ![i].scanned = TRUE, ![i].rows1 = Len(results), ![i].unembAtScan = (ChunksWithoutEmbeddings(db, b) # {}), ![i].chunksAtScan = (BranchChunks(db, b) # {})]
  /\ pc' = [pc EXCEPT ![i] = "check"]
  /\ notifier' = [notifier EXCEPT ![i] = sendProgress(@, 70)]
  /\ UNCHANGED <<db, snap, txOwner, tree, head, wc, out, lastSync, env, call>>

(* queryRepo: with no result, look for chunks without a vector *)
Check(i) ==
  /\ pc[i] = "check"
  /\ txOwner = 0
  /\ LET count == Cardinality(ChunksWithoutEmbeddings(db, loc[i].branch))
     IN /\ loc' = [loc EXCEPT ![i].unembAtCheck = (count > 0)]
        /\ pc' = [pc EXCEPT ![i] = IF NeedsBackfill(loc[i].results, count) THEN "embedStart" ELSE "finish"]
        /\ notifier' = [notifier EXCEPT ![i] = IF NeedsBackfill(loc[i].results, count) THEN sendProgress(@, 75) ELSE @]
  /\ UNCHANGED <<db, snap, txOwner, tree, head, wc, out, lastSync, env, call>>

(* embedFiles: checks, selection of the chunks without a vector *)
EmbedStart(i) ==
  /\ pc[i] = "embedStart"
  /\ txOwner = 0
  /\ \E b \in (IF loc[i].kind = "embed" THEN Branches ELSE {loc[i].branch}) :
       LET fileCount == Cardinality({a \in db.bfa : a[1] = b})
           chunks == SetToSeq({[file |-> c.file, num |-> c.num, text |-> c.text] : c \in ChunksWithoutEmbeddings(db, b)})
           called == [loc[i] EXCEPT !.branch = b, !.embedCalls = @ + 1]
       IN IF db.branch[b].status = "none"
          THEN /\ Fail(i)
               /\ notifier' = [notifier EXCEPT ![i] = stopHeartbeat(sendProgress(@, 90))]
               /\ UNCHANGED db
          ELSE IF fileCount = 0 \/ Len(chunks) = 0
               THEN /\ db' = [db EXCEPT !.branch[b].status = "embeddings_generated"]
                    /\ loc' = [loc EXCEPT ![i] = [called EXCEPT !.notes = IF fileCount # 0 /\ loc[i].observer THEN Append(@, [n |-> 1, d |-> 1]) ELSE @]]
                    /\ pc' = [pc EXCEPT ![i] = AfterEmbed(i)]
                    /\ notifier' = [notifier EXCEPT ![i] = sendProgress(@, 90)]
                    /\ UNCHANGED out
               ELSE /\ loc' = [loc EXCEPT ![i] = [called EXCEPT !.batchTodo = chunks, !.total = Len(chunks)]]
                    /\ pc' = [pc EXCEPT ![i] = "embedBatch"]
                    /\ UNCHANGED <<db, out, notifier>>
  /\ UNCHANGED <<snap, txOwner, tree, head, wc, lastSync, env, call>>

(* embedFiles: one batch, the Embedder call, the transaction that stores its   *)
(* vectors and the progress notification; after the last batch, the status     *)
EmbedBatch(i) ==
  /\ pc[i] = "embedBatch"
  /\ txOwner = 0
  /\ LET b == loc[i].branch
         batch == Take(loc[i].batchTodo, BATCH_SIZE)
         rest == Drop(loc[i].batchTodo, BATCH_SIZE)
         processedChunks == loc[i].processed + Len(batch)
     IN IF batch = <<>>
        THEN /\ db' = [db EXCEPT !.branch[b].status = "embeddings_generated"]
             /\ pc' = [pc EXCEPT ![i] = AfterEmbed(i)]
             /\ notifier' = [notifier EXCEPT ![i] = sendProgress(@, 90)]
             /\ UNCHANGED <<loc, out>>
        ELSE \E failed \in SUBSET (1..Len(batch)) :
               LET embeddings == generateOllamaEmbeddings([j \in 1..Len(batch) |-> batch[j].text], failed, env)
                   d1 == [db EXCEPT !.chunk = StoreEmbeddings(@, batch, embeddings.vectors)]
                   last == rest = <<>> /\ ~ loc[i].observer
               IN IF embeddings.kind = "throw"
                  THEN /\ Fail(i)
                       /\ notifier' = [notifier EXCEPT ![i] = stopHeartbeat(sendProgress(@, 90))]
                       /\ UNCHANGED db
                  ELSE /\ db' = IF last THEN [d1 EXCEPT !.branch[b].status = "embeddings_generated"] ELSE d1
                       /\ loc' = [loc EXCEPT ![i].batchTodo = rest, ![i].processed = processedChunks, ![i].calls = @ + 1, ![i].embeddings = embeddings.vectors, ![i].notes = IF loc[i].observer THEN Append(@, [n |-> processedChunks, d |-> loc[i].total]) ELSE @]
                       /\ pc' = [pc EXCEPT ![i] = IF last THEN AfterEmbed(i) ELSE "embedBatch"]
                       /\ notifier' = [notifier EXCEPT ![i] = IF last THEN sendProgress(@, 90) ELSE @]
                       /\ UNCHANGED out
  /\ UNCHANGED <<snap, txOwner, tree, head, wc, lastSync, env, call>>

(* queryRepo: the scan repeated after the backfill *)
Rescan(i) ==
  /\ pc[i] = "rescan"
  /\ txOwner = 0
  /\ \E retryResults \in Search(db, loc[i].branch, loc[i].filt, loc[i].q, 1, effectiveLimit(loc[i].limit)) :
       loc' = [loc EXCEPT ![i].results = @ \o retryResults, ![i].rescanned = TRUE]
  /\ pc' = [pc EXCEPT ![i] = "finish"]
  /\ UNCHANGED <<db, snap, txOwner, tree, head, wc, out, lastSync, env, call, notifier>>

(* the success payload is returned; the invocation is over *)
Finish(i) ==
  /\ pc[i] = "finish"
  /\ txOwner = 0
  /\ out' = [out EXCEPT ![i] = [kind |-> "success", results |-> KeywordFilter(loc[i].results, loc[i].keywords), chunksProcessed |-> loc[i].processed]]
  /\ loc' = [loc EXCEPT ![i] = InitLoc]
  /\ pc' = [pc EXCEPT ![i] = "idle"]
  /\ notifier' = [notifier EXCEPT ![i] = stopHeartbeat(sendProgress(@, 100))]
  /\ UNCHANGED <<db, snap, txOwner, tree, head, wc, lastSync, env, call>>

(* createHeartbeatNotifier: the interval timer fires while queryRepo is suspended *)
(* at an await and repeats the last progress to the caller's sink               *)
Heartbeat(i) ==
  /\ notifier[i].isActive
  /\ txOwner = 0
  /\ notifier[i].beats < MaxBeats
  /\ notifier' = [notifier EXCEPT ![i].received = Append(@, HeartbeatProgress(notifier[i])), ![i].beats = @ + 1]
  /\ UNCHANGED <<db, snap, txOwner, tree, head, wc, pc, loc, out, lastSync, env, call>>

(* a statement on the store throws (connection lost, disk full): inside a       *)
(* transaction db.ts rolls back and rethrows; inside processFileContents the    *)
(* try of processFiles logs the error and processFiles goes on to its success   *)
(* payload; anywhere else the catch of the entry operation returns the error    *)
(* payload, which queryRepo hands on to its caller                              *)
Fault(i) ==
  /\ pc[i] \in {"register", "sweep", "sweepLoop", "procPending", "store", "mark", "scan", "check", "embedStart", "embedBatch", "rescan"}
  /\ txOwner \in {0, i}
  /\ IF pc[i] \in {"procPending", "store", "mark"}
     THEN /\ pc' = [pc EXCEPT ![i] = "qembed"]
          /\ loc' = [loc EXCEPT ![i] = AfterContents(@)]
          /\ notifier' = [notifier EXCEPT ![i] = sendProgress(@, 50)]
          /\ UNCHANGED <<db, snap, txOwner, out, lastSync>>
     ELSE /\ Fail(i)
          /\ db' = IF txOwner = i THEN Rollback(db, snap) ELSE db
          /\ snap' = NoSnap
          /\ txOwner' = 0
          /\ lastSync' = IF txOwner = i THEN NoSync ELSE lastSync
          /\ notifier' = [notifier EXCEPT ![i] = stopHeartbeat(CASE pc[i] = "register" -> sendProgress(@, 25) [] pc[i] \in {"sweep", "sweepLoop"} -> sendProgress(@, 50) [] pc[i] \in {"embedStart", "embedBatch"} -> sendProgress(@, 90) [] OTHER -> @)]
  /\ UNCHANGED <<tree, head, wc, env, call>>

Step(i, kinds) ==
  \/ QStart(i, kinds)
  \/ QReject(i, kinds)
  \/ IngestCheckout(i)
  \/ IngestRegister(i)
  \/ ListFiles(i)
  \/ SweepBegin(i)
  \/ SweepEntry(i)
  \/ SweepRemove(i)
  \/ SweepCommit(i)
  \/ ProcCheckout(i)
  \/ ProcPending(i)
  \/ ProcStore(i)
  \/ MarkProcessed(i)
  \/ QueryEmbed(i)
  \/ Scan(i)
  \/ Check(i)
  \/ EmbedStart(i)
  \/ EmbedBatch(i)
  \/ Rescan(i)
  \/ Finish(i)

(* one pipeline invocation at a time *)
NextSeq ==
  \/ \E b \in Branches : Commit(b)
  \/ Step(1, {"query"})

(* one invocation at a time, of queryRepo or of the embedFiles tool *)
NextTools ==
  \/ \E b \in Branches : Commit(b)
  \/ Step(1, {"query", "embed"})

(* an invocation of the embedFiles tool *)
EmbedCall(i) ==
  \/ QStart(i, {"embed"})
  \/ EmbedStart(i)
  \/ EmbedBatch(i)
  \/ Finish(i)

(* a queryRepo invocation and an embedFiles invocation interleave at their *)
(* suspension points                                                       *)
Next ==
  \/ Step(1, {"query"})
  \/ EmbedCall(2)

(* queryRepo invoked with a query vector, a limit and keywords of the caller's  *)
(* choice, one invocation after another                                        *)
NextQuery == Step(1, {"search"})

(* embedFiles invoked on its own, one run after another *)
NextEmbed == EmbedCall(1)

(* queryRepo and embedFiles with statements on the store failing at any point *)
NextFaults ==
  \/ Step(1, {"query", "embed"})
  \/ Fault(1)

(* queryRepo invoked with a progress sink, and the heartbeat timer *)
NextProgress ==
  \/ Step(1, {"watched"})
  \/ Heartbeat(1)

(* queryRepo invoked with a progress sink, the heartbeat timer, and statements *)
(* on the store failing at any point                                          *)
NextWatch ==
  \/ Step(1, {"watched"})
  \/ Heartbeat(1)
  \/ Fault(1)

(* queryRepo invoked with or without a branch parameter *)
NextBranch == Step(1, {"query", "default"})

Spec == Init /\ [][NextSeq]_vars

SpecFaults == InitConc /\ [][NextFaults]_vars

FairFaults == SpecFaults /\ WF_vars(NextFaults)

SpecProgress == InitConc /\ [][NextProgress]_vars

SpecBranch == InitConc /\ [][NextBranch]_vars

SpecWatch == InitConc /\ [][NextWatch]_vars

(* two queryRepo invocations, one given branch A and one given branch B,      *)
(* interleave at their suspension points; they share the store and the        *)
(* working copy                                                               *)
PairBranch(i) == IF i = 1 THEN "A" ELSE "B"

PairCheckout(i) == IngestCheckout(i) /\ loc'[i].branch \in {"", PairBranch(i)}

Pipeline(i) ==
  \/ QStart(i, {"query"})
  \/ QReject(i, {"query"})
  \/ PairCheckout(i)
  \/ IngestRegister(i)
  \/ ListFiles(i)
  \/ SweepBegin(i)
  \/ SweepEntry(i)
  \/ SweepRemove(i)
  \/ SweepCommit(i)
  \/ ProcCheckout(i)
  \/ ProcPending(i)
  \/ ProcStore(i)
  \/ MarkProcessed(i)
  \/ QueryEmbed(i)
  \/ Scan(i)
  \/ Check(i)
  \/ EmbedStart(i)
  \/ EmbedBatch(i)
  \/ Rescan(i)
  \/ Finish(i)

NextPair == \E i \in Inv : Pipeline(i)

SpecPair == InitPair /\ [][NextPair]_vars

SpecEmbed == InitEmbed /\ [][NextEmbed]_vars

SpecQuery == InitConc /\ [][NextQuery]_vars

NextPattern == FilterPath

NextSql == SplitStatements \/ SplitInsert \/ SplitText

SpecPattern == InitPattern /\ [][NextPattern]_vars

SpecSql == InitSql /\ [][NextSql]_vars

SpecTools == Init /\ [][NextTools]_vars

(* a step of invocation i on which neither the VCS (checkout, listing, file    *)
(* read) nor the store nor the Embedder fails: no error payload is produced,   *)
(* the checkout of processFileContents succeeds and no file is skipped         *)
NoFailure(i) ==
  /\ out'[i].kind \notin {"error", "exception"}
  /\ ~ (pc[i] = "procCheckout" /\ pc'[i] = "qembed")
  /\ loc'[i].skipped = {}

(* queryRepo invoked again and again while nothing fails *)
Settle == Step(1, {"query"}) /\ NoFailure(1)

NextSettle ==
  \/ \E b \in Branches : Commit(b)
  \/ Settle

SpecSettle == Init /\ [][NextSettle]_vars

(* the caller keeps invoking queryRepo and the event loop runs every           *)
(* continuation of an awaited promise; the head moves at most MaxCommits times *)
FairSettle == SpecSettle /\ WF_vars(Settle)

SpecConc == InitConc /\ [][Next]_vars

----------------------------------------------------------------------------
(* Properties *)

(* C1: a sweep of processFiles (needsUpdate = true) that has started always      *)
(* commits, and once it has committed the (path, content identifier) pairs of    *)
(* the File records associated with the branch are exactly those of the listing  *)
C1_SweepCommitsListing ==
  /\ [](\A i \in Inv : pc[i] = "procCheckout" => AssocPairs(db, loc[i].branch) = ListingSet(loc[i].listing))
  /\ [][\A i \in Inv : pc[i] = "sweepLoop" => pc'[i] \in {"sweepLoop", "procCheckout"}]_vars

(* C2: the sweep puts a path in no class but the one its prior and current       *)
(* content identifiers decide (new, updated, unchanged, removed), and a sweep    *)
(* that has run to its end has put every path of L0 and L1 in exactly that class *)
C2_Partition ==
  \A i \in Inv : \A p \in Paths :
    LET before == loc[i].l0[p]
        entries == {k \in 1..Len(loc[i].listing) : loc[i].listing[k].path = p}
        now == IF entries = {} THEN 0 ELSE loc[i].listing[CHOOSE k \in entries : TRUE].sha
        expected == IF before = 0 THEN (IF now = 0 THEN {} ELSE {"new"}) ELSE IF now = 0 THEN {"removed"} ELSE IF before = now THEN {"unchanged"} ELSE {"updated"}
    IN /\ loc[i].cls[p] \in {{}, expected}
       /\ pc[i] = "procCheckout" => loc[i].cls[p] = expected

(* C2, its case: a sweep has ended in which a content identifier left one path   *)
(* and appeared at another: one path removed, one path new                       *)
C2_Rename ==
  \E i \in Inv : \E p, q \in Paths :
    /\ pc[i] = "procCheckout"
    /\ loc[i].cls[p] = {"removed"}
    /\ loc[i].cls[q] = {"new"}
    /\ \E k \in 1..Len(loc[i].listing) : loc[i].listing[k].path = q /\ loc[i].listing[k].sha = loc[i].l0[p]

(* C3: a sweep that follows a completed sweep of the same branch with the same   *)
(* listing inserts no file, updates no content identifier, inserts and deletes   *)
(* no association, deletes no file and no chunk, and returns no file to re-chunk *)
C3_Idempotent ==
  /\ [](\A i \in Inv : pc[i] = "procCheckout" /\ loc[i].repeat => loc[i].writes = NoWrites /\ loc[i].filesToProcess = <<>>)
  /\ [][\A i \in Inv : pc[i] = "sweepLoop" /\ loc[i].repeat => db' = db /\ pc'[i] \in {"sweepLoop", "procCheckout"}]_vars

(* C3, its case: the second sweep in a row over a listing that is not empty has ended *)
C3_SecondRun ==
  \E i \in Inv : pc[i] = "procCheckout" /\ loc[i].repeat /\ Len(loc[i].listing) > 0 /\ BranchFiles(db, loc[i].branch) # {}

(* C4: a file whose content identifier the sweep found changed is pending again, *)
(* and once it has been re-chunked every chunk of the file comes from the        *)
(* content just read: none derived from the old content remains                  *)
C4_OldChunksReplaced ==
  \A i \in Inv : \A id \in loc[i].updatedIds :
    /\ pc[i] \in {"sweepLoop", "procCheckout"} => FileById(db, id).status = "pending"
    /\ loc[i].lastStored.id = id => \A c \in db.chunk : c.file = id => c.text.src = loc[i].lastStored.content

(* C5: removing a path from a branch deletes the File and its chunks when no     *)
(* other branch is associated with it and leaves them intact otherwise; no File  *)
(* is left without an association and no chunk without its File                  *)
C5_OrphanCleanup ==
  /\ [](/\ \A f \in db.file : \E a \in db.bfa : a[2] = f.id
        /\ \A c \in db.chunk : \E f \in db.file : f.id = c.file)
  /\ [][\A i \in Inv : pc[i] = "sweepLoop" /\ pc'[i] = "sweepLoop" =>
          \A a \in db.bfa \ db'.bfa :
            /\ a[1] = loc[i].branch
            /\ IF \E o \in db.bfa : o[2] = a[2] /\ o[1] # a[1]
               THEN /\ {f \in db'.file : f.id = a[2]} = {f \in db.file : f.id = a[2]}
                    /\ {c \in db'.chunk : c.file = a[2]} = {c \in db.chunk : c.file = a[2]}
               ELSE /\ {f \in db'.file : f.id = a[2]} = {}
                    /\ {c \in db'.chunk : c.file = a[2]} = {}]_vars

(* C5, its case: a sweep has removed from its branch a path whose File, with its *)
(* chunks, another branch still holds                                            *)
C5_SharedRemoved ==
  \E i \in Inv : \E f \in db.file :
    /\ pc[i] = "procCheckout"
    /\ loc[i].cls[f.path] = {"removed"}
    /\ loc[i].l0[f.path] = f.sha
    /\ <<loc[i].branch, f.id>> \notin db.bfa
    /\ \E c \in db.chunk : c.file = f.id

(* C6: a sweep that fails leaves the store as it was when the sweep began, and   *)
(* while a sweep is between its first and its last write no other invocation     *)
(* takes a step                                                                  *)
C6_SweepAtomic ==
  /\ [][\A i \in Inv : pc[i] = "sweepLoop" /\ pc'[i] = "idle" => db' = snap]_vars
  /\ [][\A i \in Inv : pc[i] = "sweepLoop" => \A j \in Inv \ {i} : pc'[j] = pc[j] /\ loc'[j] = loc[j] /\ out'[j] = out[j]]_vars

(* C6, its case: a sweep that has already written is about to fail on its next   *)
(* write while the other invocation is suspended in the middle of its batches    *)
C6_FailingSweep ==
  \E i \in Inv : \E j \in Inv \ {i} :
    /\ pc[i] = "sweepLoop"
    /\ db # snap
    /\ loc[i].todo # <<>>
    /\ pc[j] = "embedBatch"
    /\ LET file == Head(loc[i].todo)
           existingFile == loc[i].emap[file.path]
       IN /\ existingFile # NoFile
          /\ existingFile.sha # file.sha
          /\ \E g \in db.file : g.id # existingFile.id /\ g.path = file.path /\ g.sha = file.sha

C8_BackfillWheneverUnembedded ==
  [][\A i \in Inv : loc[i].kind = "query" /\ pc[i] # "idle" /\ pc'[i] = "idle" /\ loc[i].unembAtScan =>
       /\ loc[i].embedCalls = 1
       /\ out'[i].kind = "success" => loc[i].rescanned]_vars

(* C8 amended: when the first scan returns no row and the branch has a chunk     *)
(* without a vector, queryRepo calls embedFiles exactly once and, when that pass *)
(* succeeds, returns the rows of the repeated scan, every chunk of the branch    *)
(* having its vector; when the first scan returns a row it calls no embedFiles   *)
C8_BackfillOnEmptyScan ==
  [][\A i \in Inv : loc[i].kind = "query" /\ pc[i] # "idle" /\ pc'[i] = "idle" /\ loc[i].scanned =>
       /\ (loc[i].rows1 = 0 /\ loc[i].unembAtScan) =>
            /\ loc[i].embedCalls = 1
            /\ out'[i].kind = "success" =>
                 /\ loc[i].rescanned
                 /\ out'[i].results \in Search(db, loc[i].branch, loc[i].filt, loc[i].q, 1, effectiveLimit(loc[i].limit))
                 /\ ChunksWithoutEmbeddings(db, loc[i].branch) = {}
       /\ loc[i].rows1 > 0 => loc[i].embedCalls = 0]_vars

(* C8, its case: a query whose first scan was empty has run one backfill pass    *)
(* and is about to return the rows the repeated scan found                       *)
C8_Backfilled ==
  \E i \in Inv : pc[i] = "finish" /\ loc[i].kind = "query" /\ loc[i].rows1 = 0 /\ loc[i].unembAtScan /\ loc[i].embedCalls = 1 /\ loc[i].rescanned /\ Len(loc[i].results) > 0

(* C9: a queryRepo that scans a branch without any chunk returns success with an *)
(* empty result list and has not called embedFiles; queryRepo calls embedFiles   *)
(* only after a first scan without rows and a count of chunks without a vector   *)
(* above zero                                                                    *)
C9_EmptyBranch ==
  /\ [][\A i \in Inv : loc[i].kind = "query" /\ pc[i] # "idle" /\ pc'[i] = "idle" /\ loc[i].scanned /\ ~ loc[i].chunksAtScan =>
          out'[i].kind = "success" /\ out'[i].results = <<>> /\ loc[i].embedCalls = 0]_vars
  /\ [][\A i \in Inv : loc[i].kind = "query" /\ loc'[i].embedCalls > loc[i].embedCalls =>
          loc[i].rows1 = 0 /\ loc[i].unembAtCheck /\ loc[i].embedCalls = 0]_vars

(* C9, its case: a query is about to return after scanning a branch that has     *)
(* files but no chunk                                                            *)
C9_NoChunks ==
  \E i \in Inv : pc[i] = "finish" /\ loc[i].kind = "query" /\ loc[i].scanned /\ ~ loc[i].chunksAtScan /\ BranchFiles(db, loc[i].branch) # {} /\ loc[i].results = <<>>

(* C10: whenever the status of a branch becomes embeddings_generated, every File *)
(* associated with the branch has status ingested or done                        *)
C10_CompleteOnlyWhenFilesDone ==
  [][\A b \in Branches : db.branch[b].status # "embeddings_generated" /\ db'.branch[b].status = "embeddings_generated" =>
       \A f \in BranchFiles(db', b) : f.status \in {"ingested", "done"}]_vars

(* C11: when a run of embedFiles on a branch is about to return success, every   *)
(* File associated with the branch that has at least one chunk and whose chunks  *)
(* all have a vector has status ingested                                         *)
C11_EmbeddedFilesIngested ==
  \A i \in Inv : loc[i].kind = "embed" /\ pc[i] = "finish" =>
    \A f \in BranchFiles(db, loc[i].branch) :
      LET chunks == {c \in db.chunk : c.file = f.id}
      IN (chunks # {} /\ \A c \in chunks : c.emb # NoVec) => f.status = "ingested"

(* C12: a step of embedFiles on a batch leaves either every chunk of the batch   *)
(* with a vector and the model identifier or every chunk of the batch without    *)
(* both, whether the run goes on or is aborted by the failure; the vector stored *)
(* on the j-th chunk of the batch is the j-th vector the Embedder returned for   *)
(* the batch; no other step of embedFiles writes a chunk                         *)
C12_BatchAtomic ==
  [][\A i \in Inv : pc[i] \in {"embedStart", "embedBatch"} =>
       LET batch == Take(loc[i].batchTodo, BATCH_SIZE)
           after == [j \in 1..Len(batch) |-> CHOOSE c \in db'.chunk : c.file = batch[j].file /\ c.num = batch[j].num]
           stored == {j \in 1..Len(batch) : after[j].emb # NoVec \/ after[j].model # ""}
       IN IF pc[i] = "embedBatch" /\ batch # <<>>
          THEN /\ stored \in {{}, 1..Len(batch)}
               /\ stored = {} <=> pc'[i] = "idle"
               /\ \A j \in stored : after[j].emb = loc'[i].embeddings[j] /\ after[j].model = EMBEDDING_MODEL
               /\ \A c \in db.chunk : (\A j \in 1..Len(batch) : c.file # batch[j].file \/ c.num # batch[j].num) => c \in db'.chunk
          ELSE db'.chunk = db.chunk]_vars

(* C12, its case: the first batch of a run, of two chunks, has been stored with  *)
(* the two vectors the Embedder returned, and a chunk of the next batch waits    *)
C12_BatchStored ==
  \E i \in Inv :
    /\ pc[i] = "embedBatch"
    /\ loc[i].processed = 2
    /\ Len(loc[i].embeddings) = 2
    /\ loc[i].embeddings[1] # loc[i].embeddings[2]
    /\ Len(loc[i].batchTodo) = 1
    /\ Cardinality({c \in BranchChunks(db, loc[i].branch) : c.emb # NoVec}) = 2

(* C13: when the Embedder call of a batch of an embedFiles run fails, the run    *)
(* ends there with an error payload and its remaining batches dropped, the store *)
(* is left as the batches before it made it (their chunks with vectors, every    *)
(* chunk of the failed batch and of the later ones without), and no step of the  *)
(* run before its successful end sets the branch status                          *)
C13_FailedBatchAborts ==
  [][\A i \in Inv : pc[i] = "embedBatch" /\ pc'[i] \in {"idle", "embedBatch"} =>
       LET b == loc[i].branch
           todo == {<<loc[i].batchTodo[k].file, loc[i].batchTodo[k].num>> : k \in 1..Len(loc[i].batchTodo)}
       IN /\ db'.branch[b].status = db.branch[b].status
          /\ pc'[i] = "idle" =>
               /\ out'[i].kind = "error"
               /\ loc'[i].batchTodo = <<>>
               /\ db' = db
               /\ \A c \in BranchChunks(db', b) : c.emb = NoVec <=> <<c.file, c.num>> \in todo]_vars

(* C13, its case: a run has failed on its second batch: it returned an error,    *)
(* the two chunks of the first batch have their vectors, the third has none, and *)
(* the branch is still files_processed                                           *)
C13_SecondBatchFailed ==
  \E i \in Inv : \E b \in Branches :
    /\ pc[i] = "idle"
    /\ out[i].kind = "error"
    /\ db.branch[b].status = "files_processed"
    /\ Cardinality({c \in BranchChunks(db, b) : c.emb # NoVec}) = 2
    /\ Cardinality({c \in BranchChunks(db, b) : c.emb = NoVec}) = 1

C15_ProgressNotifications ==
  \A i \in Inv : loc[i].kind = "embed" /\ loc[i].observer /\ pc[i] \in {"embedBatch", "finish"} =>
    IF loc[i].total = 0
    THEN pc[i] = "finish" => loc[i].notes = <<[n |-> 1, d |-> 1]>>
    ELSE /\ Len(loc[i].notes) = loc[i].calls
         /\ \A k \in 1..Len(loc[i].notes) : loc[i].notes[k].d = loc[i].total /\ loc[i].notes[k].n <= loc[i].total
         /\ \A k \in 1..(Len(loc[i].notes) - 1) : loc[i].notes[k].n < loc[i].notes[k + 1].n
         /\ Len(loc[i].notes) > 0 => loc[i].notes[Len(loc[i].notes)].n = loc[i].processed
         /\ pc[i] = "finish" => loc[i].processed = loc[i].total

(* C16: outside the test mode generateOllamaEmbeddings returns no placeholder    *)
(* vector (a failed request makes it fail instead), and no chunk carries a       *)
(* placeholder vector                                                            *)
C16_PlaceholderOnlyInTest ==
  env.ENV # "test" =>
    /\ \A i \in Inv : \A j \in 1..Len(loc[i].embeddings) : loc[i].embeddings[j] # MockEmbedding
    /\ \A c \in db.chunk : c.emb # MockEmbedding

(* C17: every result queryRepo is about to return, from the first scan or from   *)
(* the scan repeated after the backfill, carries as its score the sum of the     *)
(* coordinate-wise products of the query vector and the vector of its chunk      *)
(* divided by the dimensionality of the vectors                                  *)
C17_ScoreIsMeanProduct ==
  \A i \in Inv : pc[i] = "finish" /\ loc[i].kind # "embed" =>
    \A k \in 1..Len(loc[i].results) :
      LET r == loc[i].results[k]
      IN \E f \in BranchFiles(db, loc[i].branch) : \E c \in db.chunk :
           /\ c.file = f.id /\ f.path = r.path /\ c.num = r.num /\ c.text = r.text
           /\ r.similarity.n * Len(loc[i].q) = (loc[i].q[1] * c.emb.src + loc[i].q[2] * c.emb.num) * r.similarity.d

(* Glob matching as the specification defines it: ** matches any run of          *)
(* characters, * any run of characters without a /, any other character itself   *)
RECURSIVE GlobMatch(_, _)
GlobMatch(str, pattern) ==
  IF pattern = <<>> THEN str = <<>>
  ELSE IF Len(pattern) >= 2 /\ pattern[1] = "*" /\ pattern[2] = "*" THEN GlobMatch(str, SubSeq(pattern, 3, Len(pattern))) \/ (str # <<>> /\ GlobMatch(Tail(str), pattern))
  ELSE IF Head(pattern) = "*" THEN GlobMatch(str, Tail(pattern)) \/ (str # <<>> /\ Head(str) # "/" /\ GlobMatch(Tail(str), pattern))
  ELSE str # <<>> /\ Head(str) = Head(pattern) /\ GlobMatch(Tail(str), Tail(pattern))

(* C18: the scan keeps the chunks of a path iff the path matches at least one    *)
(* include pattern (when any is given) and no exclude pattern, ** matching any   *)
(* path depth and * matching within one path segment only                        *)
C18_GlobEligibility ==
  call.op = "scanned" =>
    (call.kept <=>
       /\ Len(call.filePatterns) > 0 => \E k \in 1..Len(call.filePatterns) : GlobMatch(call.path, call.filePatterns[k])
       /\ \A k \in 1..Len(call.excludePatterns) : ~ GlobMatch(call.path, call.excludePatterns[k]))

C21_AlwaysAPayload ==
  /\ [][\A i \in Inv : pc[i] # "idle" /\ pc'[i] = "idle" => out'[i].kind \in {"success", "error"}]_vars
  /\ [](\A i \in Inv : pc[i] = "idle" => out[i].kind \in {"none", "success", "error"})
  /\ \A i \in Inv : (pc[i] # "idle") ~> (pc[i] = "idle")

(* C21, its case: a statement of the sweep has failed after the sweep had        *)
(* written, the transaction was rolled back and queryRepo has returned the error *)
(* payload                                                                       *)
C21_FailedInSweep ==
  \E i \in Inv :
    /\ pc[i] = "idle"
    /\ out[i].kind = "error"
    /\ lastSync = NoSync
    /\ txOwner = 0
    /\ \E b \in Branches : db.branch[b].status = "pending" /\ BranchFiles(db, b) # {}

(* C22: the progress values the caller's sink has received from one queryRepo    *)
(* invocation, from its main computation and from its heartbeat timer in any     *)
(* interleaving, form a non-decreasing sequence                                  *)
C22_ProgressNonDecreasing ==
  \A i \in Inv : \A k \in 1..(Len(notifier[i].received) - 1) : notifier[i].received[k] <= notifier[i].received[k + 1]

(* C22, its case: a queryRepo that ran a backfill has returned; its sink got a   *)
(* heartbeat between two updates of the main computation and another one later   *)
C22_HeartbeatsBetweenUpdates ==
  \E i \in Inv :
    /\ pc[i] = "idle"
    /\ out[i].kind = "success"
    /\ notifier[i].beats = MaxBeats
    /\ \E k \in 2..(Len(notifier[i].received) - 1) : notifier[i].received[k - 1] < notifier[i].received[k] /\ notifier[i].received[k] = notifier[i].received[k + 1] /\ notifier[i].received[k] = 75
    /\ notifier[i].received[Len(notifier[i].received)] = 100

(* C23: a queryRepo invoked without a branch parameter works on, and answers     *)
(* against, the default branch of the repository, whatever branch the local      *)
(* working copy was left on by earlier invocations                               *)
C23_DefaultBranchWhenOmitted ==
  \A i \in Inv : loc[i].kind = "default" /\ pc[i] \notin {"idle", "ingest"} => loc[i].branch = DefaultBranch

(* C24: a File with the extension zip, which is classified ignore, has status    *)
(* pending or done only (never fetched or ingested) and has no chunk; no chunk   *)
(* of such a file is in a batch for the Embedder; and when processFileContents   *)
(* has gone through the pending files of a branch, every such file of the branch *)
(* is done                                                                       *)
C24_IgnoredFilesDone ==
  /\ \A f \in db.file : Extension(f.path) = "zip" =>
       /\ f.status \in {"pending", "done"}
       /\ \A c \in db.chunk : c.file # f.id
  /\ \A i \in Inv :
       /\ \A j \in 1..Len(loc[i].batchTodo) : Extension(loc[i].batchTodo[j].text.path) # "zip"
       /\ pc[i] = "mark" => \A f \in BranchFiles(db, loc[i].branch) : Extension(f.path) = "zip" => f.status = "done"

(* C24, its case: processFileContents has gone through a branch with an archive  *)
(* and a source file: the archive is done without a chunk, the source file is    *)
(* fetched with its chunks                                                       *)
C24_ArchiveDone ==
  \E i \in Inv : \E f, g \in BranchFiles(db, loc[i].branch) :
    /\ pc[i] = "mark"
    /\ f.path = "a.zip" /\ f.status = "done"
    /\ g.path = "x.ts" /\ g.status = "fetched"
    /\ \E c \in db.chunk : c.file = g.id

(* C25: a pending file that processFileContents could not read or split, or did  *)
(* not find on disk, stays pending and none of the steps of the run changes its  *)
(* chunks; when the loop has ended every other file of the branch is fetched or  *)
(* done; and processFiles then marks the branch files_processed and queryRepo    *)
(* goes on to the query instead of returning an error                            *)
C25_FailedFileSkipped ==
  /\ [](\A i \in Inv : pc[i] \in {"store", "mark"} =>
          /\ \A id \in loc[i].skipped : FileById(db, id).status = "pending"
          /\ pc[i] = "mark" => \A f \in BranchFiles(db, loc[i].branch) : f.id \notin loc[i].skipped => f.status \in {"fetched", "done"})
  /\ [][\A i \in Inv : pc[i] \in {"procPending", "store"} =>
          \A id \in loc'[i].skipped : {c \in db'.chunk : c.file = id} = {c \in db.chunk : c.file = id}]_vars
  /\ [][\A i \in Inv : pc[i] = "mark" /\ pc'[i] # "mark" => pc'[i] = "qembed" /\ out'[i] = out[i] /\ db'.branch[loc[i].branch].status = "files_processed"]_vars

(* C25, its case: the loop has ended on a branch with two pending files: the     *)
(* source file failed and is still pending without a chunk, the archive is done  *)
C25_OneFailedOtherDone ==
  \E i \in Inv : \E f, g \in BranchFiles(db, loc[i].branch) :
    /\ pc[i] = "mark"
    /\ f.id \in loc[i].skipped /\ f.status = "pending" /\ \A c \in db.chunk : c.file # f.id
    /\ g.id \notin loc[i].skipped /\ g.status = "done"

(* C26: a checkout of the VCS that fails, in ingestBranch, in the listing of     *)
(* processFiles or in processFileContents, ends the run with an error payload:   *)
(* processFiles returns no success payload, and queryRepo does not go on to the  *)
(* query, when the checkout of processFileContents has failed                    *)
C26_CheckoutFailureReported ==
  [][\A i \in Inv : pc[i] \in {"ingest", "list", "procCheckout"} /\ pc'[i] \notin {pc[i], "register", "sweep", "procPending"} =>
       pc'[i] = "idle" /\ out'[i].kind = "error"]_vars

(* C27: in splitSQLStatements a `;` inside a quoted string literal (backslash   *)
(* escapes honoured), inside a `--` line comment or inside a block comment      *)
(* never ends a statement: every statement the tokenizer ends at a `;` ends at  *)
(* a `;` outside all of these                                                    *)
C27_SemicolonInLiteralNeverEnds ==
  call.op = "splitDone" =>
    \A k \in 1..Len(call.cuts) : call.cuts[k].by = ";" => call.cuts[k].at \notin Reference(call.text).literal

(* C28: in splitSQLStatements a compound construct (function, procedure or      *)
(* generic BEGIN...END block) is never ended by a `;` inside it and ends        *)
(* exactly at the END that returns its nesting depth to zero: no statement ends *)
(* at a `;` inside a construct, and the statements ended by an END are ended at *)
(* the closing END of each construct of the text, at those and at no other      *)
(* (stated for the texts in which no END comes without its BEGIN)               *)
C28_ConstructEndsAtMatchingEnd ==
  (call.op = "splitDone" /\ Reference(call.text).ok) =>
    LET r == Reference(call.text)
    IN /\ \A k \in 1..Len(call.cuts) : call.cuts[k].by = ";" => call.cuts[k].at \notin r.inside
       /\ {call.cuts[k].at : k \in {j \in 1..Len(call.cuts) : call.cuts[j].by = "end"}} = r.terms

(* C29: for every text whose BEGIN/END keywords, strings and comments are       *)
(* balanced, splitSQLStatements returns exactly N statements, N the number of   *)
(* top-level `;` plus the number of closing ENDs of top-level constructs        *)
(* (stated for the texts that leave nothing but blanks after their last         *)
(* terminator, so that every statement of the text has one)                     *)
C29_StatementBalance ==
  LET r == Reference(call.text)
  IN (call.op = "splitDone" /\ Balanced(r) /\ \A k \in (r.last + 1)..Len(call.text) : call.text[k] \in Whitespace) =>
       Len(call.statements) = Cardinality(r.tops) + Cardinality(r.terms)

(* C30: splitting an INSERT ... VALUES statement of K value tuples yields       *)
(* INSERT statements whose tuples, read in order across the statements, are     *)
(* the K original tuples in their order with none of them split (each produced  *)
(* statement is the INSERT head, a run of consecutive whole tuples joined by    *)
(* commas, and `;`), and no produced statement is longer than the budget unless *)
(* it holds one tuple that alone exceeds the budget                             *)
C30_InsertSplitKeepsTuplesAndBudget ==
  call.op = "insertDone" =>
    LET K == Len(call.tuples)
        n == Len(call.statements)
    IN \E ends \in [1..n -> 0..K] :
         /\ n > 0 /\ ends[n] = K
         /\ \A k \in 1..n :
              LET from == IF k = 1 THEN 1 ELSE ends[k - 1] + 1
              IN /\ from <= ends[k] + 1
                 /\ call.statements[k] = InsertHead \o Join(SubSeq(call.tuples, from, ends[k])) \o <<";">>
                 /\ \/ Len(call.statements[k]) <= call.maxCharacters
                    \/ ends[k] = from /\ Len(InsertHead) + Len(call.tuples[from]) + 1 > call.maxCharacters

(* C39: every statement splitInsertStatement produces for an INSERT ... VALUES  *)
(* statement of at least one value tuple holds at least one value tuple: none   *)
(* is the INSERT head followed by `;` alone, also when the first tuple alone    *)
(* exceeds the budget                                                           *)
C39_NoEmptyInsert ==
  (call.op = "insertDone" /\ Len(call.tuples) >= 1) =>
    \A k \in 1..Len(call.statements) :
      \E t \in InsertTuples : \E at \in (Len(InsertHead) + 1)..Len(call.statements[k]) : startsWith(call.statements[k], at, t)

(* C40: every statement splitSQLStatements returns is, up to the trimming of    *)
(* surrounding whitespace, a contiguous substring of the input text: no         *)
(* character is inserted, duplicated or changed in case, at comment delimiters  *)
(* and BEGIN/END keywords included                                              *)
C40_StatementsAreSubstrings ==
  call.op = "splitDone" =>
    \A k \in 1..Len(call.statements) :
      call.statements[k] = <<>> \/ \E at \in 1..Len(call.text) : startsWith(call.text, at, call.statements[k])

(* the characters of a text that carry content: whitespace and the commas that *)
(* separate value tuples are left out                                          *)
NonBlank(str) == SelectSeq(str, LAMBDA c : c \notin Whitespace \cup {","})

(* how many elements of a, from position from on, are found in order in         *)
(* b[lo..hi], each at the first place where it can be                           *)
RECURSIVE Matched(_, _, _, _, _)
Matched(a, from, b, lo, hi) ==
  IF lo > hi \/ from > Len(a) THEN 0
  ELSE IF lo = hi THEN (IF a[from] = b[lo] THEN 1 ELSE 0)
  ELSE LET mid == (lo + hi) \div 2
           first == Matched(a, from, b, lo, mid)
       IN first + Matched(a, from + first, b, mid + 1, hi)

IsSubsequence(a, b) == Matched(a, 1, b, 1, Len(b)) = Len(a)

(* C31: the chunks the SQL splitter produces for a file, read in order, cover   *)
(* the whole input: whitespace and the commas between value tuples apart, every *)
(* character of the input is found in the chunks, in the order of the input     *)
(* (the text after the last value tuple of an INSERT statement included)        *)
C31_ChunksCoverInput ==
  call.op = "chunkDone" => IsSubsequence(NonBlank(call.text), NonBlank(Concat(call.statements)))

(* C32: at the moment an operation sets the status of a branch to               *)
(* embeddings_generated every chunk associated with the branch through its      *)
(* files has a committed vector, and the status of a branch is never anything   *)
(* but pending, files_processed or embeddings_generated ("none": the branch has *)
(* no record yet)                                                               *)
C32_VectorsBeforeGenerated ==
  /\ [][\A b \in Branches :
          (/\ db'.branch[b].status = "embeddings_generated"
           /\ \/ db.branch[b].status # "embeddings_generated"
              \/ \E i \in Inv : pc[i] \in {"embedStart", "embedBatch"} /\ pc'[i] \in {"rescan", "finish"} /\ loc'[i].branch = b)
          => \A c \in BranchChunks(db', b) : c.emb # NoVec]_vars
  /\ [](\A b \in Branches : db.branch[b].status \in {"none", "pending", "files_processed", "embeddings_generated"})

(* a backfill has just marked a branch whose file has more chunks than one      *)
(* batch holds                                                                  *)
C32_GeneratedAfterTwoBatches ==
  \E i \in Inv : /\ pc[i] = "rescan"
                 /\ loc[i].calls >= 2
                 /\ db.branch[loc[i].branch].status = "embeddings_generated"
                 /\ Cardinality(BranchChunks(db, loc[i].branch)) > BATCH_SIZE

(* C33: after any sequence of sync, chunking and embedding operations the chunk *)
(* ordinals of every file are exactly 1..n for some n >= 0: they start at 1 and *)
(* have no gap and no duplicate                                                 *)
C33_OrdinalsContiguous ==
  \A id \in {c.file : c \in db.chunk} :
    LET ofFile == {c \in db.chunk : c.file = id}
    IN /\ {c.num : c \in ofFile} = 1..Cardinality(ofFile)
       /\ \A c1, c2 \in ofFile : c1.num = c2.num => c1 = c2

(* a file re-chunked after its content changed keeps chunks of the old content  *)
(* next to chunks of the new one, some of them with a vector                    *)
C33_RechunkedFile ==
  \E id \in {c.file : c \in db.chunk} :
    LET ofFile == {c \in db.chunk : c.file = id}
    IN /\ Cardinality(ofFile) >= 3
       /\ \E c1, c2 \in ofFile : c1.text.src # c2.text.src
       /\ \E c \in ofFile : c.emb # NoVec

(* C34: once a chunk has a vector no operation changes or clears it for as long *)
(* as the chunk exists: after every step a chunk that had a vector either has   *)
(* the same vector or is gone, and a step of embedFiles writes only chunks that *)
(* had no vector                                                                *)
C34_VectorsStay ==
  [][/\ \A c \in db.chunk : c.emb # NoVec =>
          \A c2 \in db'.chunk : (c2.file = c.file /\ c2.num = c.num) => (c2.emb = c.emb /\ c2.model = c.model)
     /\ \A i \in Inv : (pc[i] = "embedBatch" /\ loc'[i].calls = loc[i].calls + 1) =>
          \A j \in 1..Len(Take(loc[i].batchTodo, BATCH_SIZE)) : \A c \in db.chunk :
            (c.file = loc[i].batchTodo[j].file /\ c.num = loc[i].batchTodo[j].num) => c.emb = NoVec]_vars

(* a second embedding run on a branch that already holds vectors has just       *)
(* stored the vector of a chunk added since                                     *)
C34_NewVectorBesideOld ==
  \E i \in Inv : /\ pc[i] \in {"embedBatch", "rescan", "finish"}
                 /\ loc[i].calls >= 1
                 /\ \E c1, c2 \in BranchChunks(db, loc[i].branch) :
                      /\ c1.emb # NoVec /\ c2.emb # NoVec
                      /\ c1.text.src # c2.text.src

(* The chunks of file id in the store d *)
ChunksOf(d, id) == {c \in d.chunk : c.file = id}

(* What the other branch a sees is the same in the stores before and after:
   the same (path, content identifier) pairs, and every file of a that had
   been chunked keeps its content identifier, status and chunks.  A file that
   is still pending may be chunked through either branch that shares it. *)
SameView(before, after, a) ==
  /\ AssocPairs(after, a) = AssocPairs(before, a)
  /\ \A f \in BranchFiles(before, a) : f.status # "pending" =>
       /\ f \in BranchFiles(after, a)
       /\ ChunksOf(after, f.id) = ChunksOf(before, f.id)

(* C35: synchronizing and re-chunking branch b changes nothing that another
   branch a sees: a committed sweep on b leaves every file associated with a
   with the path, content identifier, status and chunks it had when the sweep
   began, and so does every chunking step on b, also when the two branches
   share a File record whose content changed on b. *)
C35_OtherBranchUntouched ==
  [][\A i \in Inv : \A a \in Branches \ {loc[i].branch} :
       /\ (pc[i] = "sweepLoop" /\ pc'[i] = "procCheckout") => SameView(snap, db', a)
       /\ (pc[i] \in {"procPending", "store"} /\ pc'[i] \in {"store", "mark"}) => SameView(db, db', a)]_vars

(* Branch b is settled: its status is embeddings_generated, every chunk
   associated with it has a vector, and an invocation on it has not decided to
   synchronize again *)
Settled(b) ==
  /\ db.branch[b].status = "embeddings_generated"
  /\ \A c \in BranchChunks(db, b) : c.emb # NoVec
  /\ \A i \in Inv : loc[i].branch = b => ~ loc[i].needsUpdate

(* C36: once the head of a branch has stopped changing and nothing fails, a
   branch that queryRepo keeps being invoked on is settled after finitely many
   invocations and stays so: its status is embeddings_generated, every chunk
   associated with it has a vector and ingestBranch reports needsUpdate =
   false from then on. *)
C36_BranchSettles ==
  \A b \in Branches : ([]<>(pc[1] = "register" /\ loc[1].branch = b)) => <>[]Settled(b)

(* C38: after queryRepo has returned, on every path (success, error payload,
   early return for missing input, caught exception), the heartbeat timer is
   stopped, and no progress notification is initiated for that invocation any
   more: while no invocation runs, the sink receives nothing. *)
C38_HeartbeatStopsOnReturn ==
  /\ [](\A i \in Inv : pc[i] = "idle" => ~ notifier[i].isActive)
  /\ [][\A i \in Inv : (pc[i] = "idle" /\ pc'[i] = "idle") => Len(notifier'[i].received) <= Len(notifier[i].received)]_vars

(* queryRepo has returned an error payload after the heartbeat had fired *)
C38_ReturnedAfterHeartbeat ==
  /\ pc[1] = "idle"
  /\ out[1].kind = "error"
  /\ notifier[1].observed
  /\ notifier[1].beats >= 1
  /\ Len(notifier[1].received) >= 3

(* C37: when two pipeline invocations for two different branches interleave at
   their suspension points, every chunk stored for a file of branch b is
   computed from the content that file has on branch b, never from the content
   the other branch's checkout left in the shared working copy. *)
C37_ChunksFromOwnBranch ==
  \A b \in Branches : \A f \in BranchFiles(db, b) : \A c \in ChunksOf(db, f.id) : c.text.src = tree[b][f.path]
====
